SPECIFICATION Spec
CONSTANTS
    SFTP_MAX_HANDLES = 2
    BUFFER_SIZE = 1
    SFTP_MAX_SIZE = 4
    MAX_DIRENTS_PER_REQUEST = 1
    FileLimit = 4
    SFTP_BLOCKSIZE = 2
    CALLBACKS = 3
    DC_ENTRIES = 2
    Hidden = {"h"}
    MaxCommands = 2
    MaxDepth = 1
    MaxOpens = 1
    Commands <- MCCommands
    RemoteFiles <- MCRemote
    LocalFiles <- MCLocal
INVARIANTS TransferComplete OperationsTracked HandlesReleased NeverStuck

CHECK_DEADLOCK FALSE
