-------------------------------- MODULE Spki -------------------------------
(***************************************************************************)
(* Two users of libspki.  In the scene "lsh" the client's spki_context     *)
(* (src/spki.c) loads ACLs, looks up host keys and decides authorization.  *)
(* In the scenes "chain" and "sign" the owner of a resource and the        *)
(* holders of keys run the tools spki-delegate and spki-reduce, and        *)
(* spki-make-signature and spki-check-signature; each run of a tool starts *)
(* with an empty database.                                                 *)
(***************************************************************************)
EXTENDS SpkiDb

CONSTANTS
  HostKeys,       (* the keys the client meets                             *)
  AclFiles,       (* files of ACLs, each ACL with what it is meant to say  *)
  Requests,       (* plain tag expressions, asked for                      *)
  Times,          (* times of asking                                       *)
  Tags,           (* tag expressions delegated with the tools              *)
  Owners,         (* ACL files of the owner of the resource                *)
  OwnerKeys,      (* the keys the owner writes ACLs for                    *)
  OwnerTags,      (* more tags of the owner's ACLs                         *)
  OtherChains,    (* certificate sequences made by other software, or none *)
  Messages,       (* signed data                                           *)
  OtherSignatures,(* signatures made by other software                     *)
  MaxFiles,       (* ACL files the client loads                            *)
  MaxCerts        (* certificates in a chain made with spki-delegate       *)

VARIABLES
  scene,          (* "lsh", "chain" or "sign"                              *)
  db,             (* the database of the client                            *)
  files,          (* number of files loaded                                *)
  told,           (* what the accepted ACLs say                            *)
  owner,          (* the ACL file given to spki-reduce                     *)
  chain,          (* the certificate sequence                              *)
  signature,      (* what spki-make-signature wrote                        *)
  verdict         (* of the last tool                                      *)
vars == <<scene, db, files, told, owner, chain, signature, verdict>>

NoVerdict == [tool |-> "none", status |-> "none", entries |-> <<>>, message |-> "none"]
Key(k) == [type |-> "public-key", key |-> k]
Hash(algorithm, k) == [type |-> "hash", algorithm |-> algorithm, key |-> k]

-----------------------------------------------------------------------------
(* The client.                                                             *)

(* Reads ACLs; those before an invalid one count.                          *)
AddAcls(file) ==
  LET bad == {j \in 1..Len(file) : ~file[j].valid}
      good == IF bad = {} THEN Len(file) ELSE Min(bad) - 1
  IN /\ files < MaxFiles
     /\ files' = files + 1
     /\ db' = spki_add_acls(db, file).db
     /\ told' = told \cup UNION {file[j].grants : j \in 1..good}
     /\ UNCHANGED <<scene, owner, chain, signature, verdict>>

(* The verifier of the first lookup stays.                                 *)
spki_lookup_key(d, k) ==
  LET r == spki_principal_by_key(d, k)
  IN [r.db EXCEPT !.principals[r.id].verifier = TRUE]

LookupKey(k) ==
  /\ db' = spki_lookup_key(db, k)
  /\ UNCHANGED <<scene, files, told, owner, chain, signature, verdict>>

(* Without a verifier of its own the principal gets none: the iterator     *)
(* passed on to spki_make_verifier is still outside the key expression.    *)
Lookup(e) ==
  /\ db' = spki_parse_principal(db, e).db
  /\ UNCHANGED <<scene, files, told, owner, chain, signature, verdict>>

-----------------------------------------------------------------------------
(* The tools.                                                              *)
Field(type, e) == [type |-> type, body |-> <<e>>]
EntryFields(subject, propagate, tag) ==
  <<Field("subject", subject)>> \o (IF propagate THEN <<[type |-> "propagate"]>> ELSE <<>>)
  \o <<[type |-> "tag", tag |-> tag]>>
Cert(issuer, subject, propagate, tag) ==
  [type |-> "cert", fields |-> <<Field("issuer", issuer)>> \o EntryFields(subject, propagate, tag)]
Grant(form, k, propagate, tag, from, to) ==
  [form |-> form, key |-> k, propagate |-> propagate, tag |-> tag, from |-> from, to |-> to]
Acl(items, grants) == [items |-> items, valid |-> grants # {}, grants |-> grants]

(* The key signs with its own hash algorithm; of the tools' keys only the  *)
(* rsa ones can sign.                                                      *)
CanSign(k) == Rsa(KeyType[k])
spki_sign(k, signed) ==
  [type |-> "signature", algorithm |-> VerifyHash[KeyType[k]], signed |-> signed, principal |-> Key(k), by |-> k,
   value |-> KeyType[k], nested |-> <<>>]

(* The certificates of a chain, the nested ones included.                  *)
RECURSIVE Certs(_)
Certs(items) ==
  IF items = <<>> THEN 0
  ELSE (IF items[1].type = "cert" THEN 1 ELSE 0) + Certs(Tail(items))
       + (IF items[1].type = "signature" THEN Certs(items[1].nested) ELSE 0)

(* A chain is extended by its text without the last parenthesis before the *)
(* point where parsing stopped: behind a signature, that is the one that   *)
(* closes the signature.                                                   *)
RECURSIVE Extend(_, _, _)
Extend(items, pending, new) ==
  IF items = <<>> THEN new
  ELSE IF items[1].type = "signature" /\ pending
  THEN <<[items[1] EXCEPT !.nested = Extend(@, FALSE, new)]>>
  ELSE <<items[1]>> \o Extend(Tail(items), pending \/ items[1].type = "cert", new)

Signed(cert, sign, k) == IF sign THEN <<cert, spki_sign(k, cert)>> ELSE <<cert>>

(* spki-delegate without a source of the delegation: an ACL.               *)
DelegateAcl(subject, propagate, tag) ==
  /\ owner.items = <<>> /\ chain = <<>>
  /\ owner' = Acl(<<[type |-> "entry", fields |-> EntryFields(Key(subject), propagate, tag)]>>,
                  {Grant("key", subject, propagate, tag, spki_date_since_ever, spki_date_for_ever)})
  /\ UNCHANGED <<scene, db, files, told, chain, signature, verdict>>

(* spki-delegate --issuer: a chain of one certificate.                     *)
DelegateCert(issuer, subject, propagate, tag, sign, k) ==
  /\ chain = <<>>
  /\ sign => CanSign(k)
  /\ chain' = Signed(Cert(Key(issuer), Key(subject), propagate, tag), sign, k)
  /\ verdict' = NoVerdict
  /\ UNCHANGED <<scene, db, files, told, owner, signature>>

(* spki-delegate --chain: the subject of the chain is the issuer; its key  *)
(* must be known, or what is written is undefined.                         *)
Delegates(w, subject, propagate, tag, sign, k) ==
  LET issuer == w.db.principals[w.subject]
      cert == Cert(Key(issuer.of), Key(subject), propagate, tag)
  IN /\ w.ok /\ issuer.key
     /\ chain' = Extend(chain, FALSE, Signed(cert, sign, k))

DelegateChain(subject, propagate, tag, sign, k) ==
  /\ chain # <<>> /\ Certs(chain) < MaxCerts
  /\ sign => CanSign(k)
  /\ Delegates(spki_parse_sequence(spki_acl_init, chain), subject, propagate, tag, sign, k)
  /\ verdict' = NoVerdict
  /\ UNCHANGED <<scene, db, files, told, owner, signature>>

(* spki-reduce: the ACL file must hold a valid ACL, the sequence must be   *)
(* valid, and the entries for its subject are written as an ACL.           *)
Outcome(status, entries) == [NoVerdict EXCEPT !.tool = "reduce", !.status = status, !.entries = entries]

WriteEntries(w, own) ==
  IF own = <<>> THEN Outcome("no authorization", <<>>)
  ELSE IF \E j \in 1..Len(own) : ~w.db.principals[own[j].subject].key THEN Outcome("aborted", <<>>)
  ELSE Outcome("granted",
               [j \in 1..Len(own) |->
                  [key |-> w.db.principals[own[j].subject].of, propagate |-> own[j].propagate,
                   tag |-> spki_tag_format(own[j].tag), flags |-> own[j].flags,
                   from |-> own[j].not_before, to |-> own[j].not_after]])

SelectEntries(w, reduced) ==
  IF \E j \in 1..Len(reduced) : reduced[j].tag = Aborted THEN Outcome("aborted", <<>>)
  ELSE WriteEntries(w, SelectSeq(reduced, LAMBDA t : t.issuer = NoPrincipal
                                            /\ spki_principal_normalize(w.db, t.subject) = w.subject))

ReduceSequence(w) ==
  IF ~w.ok THEN Outcome("invalid certificate", <<>>)
  ELSE SelectEntries(w, spki_5_tuple_reduce(w.db, w.list))

ReduceWith(a, sequence) ==
  IF ~a.ok THEN Outcome("invalid acl", <<>>) ELSE ReduceSequence(spki_parse_sequence(a.db, sequence))

Reduce ==
  /\ chain # <<>>
  /\ verdict' = ReduceWith(spki_acl_process(spki_acl_init, owner), chain)
  /\ UNCHANGED <<scene, db, files, told, owner, chain, signature>>

MakeSignature(k, m) ==
  /\ CanSign(k)
  /\ signature' = <<spki_sign(k, m)>>
  /\ verdict' = NoVerdict
  /\ UNCHANGED <<scene, db, files, told, owner, chain>>

(* With --no-data the hash is taken from the signature itself.  Nothing    *)
(* may follow the value of an rsa signature; a dsa one is left there.      *)
check_signature(s, m, with_data) ==
  LET r == spki_parse_principal(spki_acl_init, s.principal)
  IN /\ with_data => s.algorithm \in {"md5", "sha1"} /\ s.signed = m
     /\ r.id # NoPrincipal /\ s.value \in KnownTypes /\ spki_verify(r.db, r.id, s)
     /\ s.nested = <<>> \/ (~Rsa(KeyType[s.by]) /\ s.nested[1].type \in KnownTypes)

CheckSignature(m, with_data) ==
  /\ signature # <<>>
  /\ verdict' = [NoVerdict EXCEPT !.tool = "check", !.message = IF with_data THEN m ELSE "none",
                    !.status = IF check_signature(signature[1], m, with_data) THEN "good" ELSE "bad"]
  /\ UNCHANGED <<scene, db, files, told, owner, chain, signature>>

-----------------------------------------------------------------------------
Init ==
  /\ scene \in {"lsh", "chain", "sign"}
  /\ db = spki_acl_init /\ files = 0 /\ told = {}
  /\ owner \in Owners /\ (scene # "chain" => owner = CHOOSE a \in Owners : TRUE)
  /\ chain \in OtherChains \cup {<<>>} /\ (scene # "chain" => chain = <<>>)
  /\ signature \in {<<s>> : s \in OtherSignatures} \cup {<<>>} /\ (scene # "sign" => signature = <<>>)
  /\ verdict = NoVerdict

ClientNext ==
  \/ \E file \in AclFiles : AddAcls(file)
  \/ \E k \in HostKeys : LookupKey(k)
  \/ \E k \in HostKeys, algorithm \in {"md5", "sha1"} : Lookup(Hash(algorithm, k))
  \/ \E k \in HostKeys : Lookup(Key(k))

ChainNext ==
  \/ \E subject \in OwnerKeys, propagate \in BOOLEAN, tag \in Tags \cup OwnerTags :
       DelegateAcl(subject, propagate, tag)
  \/ \E issuer \in Keys, subject \in Keys, propagate \in BOOLEAN, tag \in Tags, sign \in BOOLEAN, k \in Keys :
       DelegateCert(issuer, subject, propagate, tag, sign, k)
  \/ \E subject \in Keys, propagate \in BOOLEAN, tag \in Tags, sign \in BOOLEAN, k \in Keys :
       DelegateChain(subject, propagate, tag, sign, k)
  \/ Reduce

SignNext ==
  \/ \E k \in Keys, m \in Messages : MakeSignature(k, m)
  \/ \E m \in Messages, with_data \in BOOLEAN : CheckSignature(m, with_data)

Next ==
  \/ scene = "lsh" /\ ClientNext
  \/ scene = "chain" /\ ChainNext
  \/ scene = "sign" /\ SignNext
Spec == Init /\ [][Next]_vars

-----------------------------------------------------------------------------
TimeLeq(a, b) == a = b \/ \E j \in 1..6 : a[j] < b[j] /\ \A k \in 1..(j - 1) : a[k] = b[k]

(* A grant and a principal speak of the same key: they name it the same    *)
(* way, or the key itself has been seen.                                   *)
SamePrincipal(grant, p) ==
  /\ grant.key = p.of
  /\ \/ grant.form \in p.hashes
     \/ \E j \in 1..Len(db.principals) : db.principals[j].of = p.of /\ db.principals[j].key

(* AuthorizeExact: whatever the order in which keys and digests of them    *)
(* were seen, spki_authorize grants a request exactly when an accepted ACL *)
(* entry for that key says so, for that time (the aliases of               *)
(* spki/certificate.c, the normal form of sets and the inclusion of        *)
(* spki/tag.c, and the comparison of formatted dates).                     *)
AuthorizeExact ==
  \A j \in 1..Len(db.principals), t \in Times, r \in Requests :
    spki_authorize(db, j, t, r) <=>
      \E g \in told : /\ SamePrincipal(g, db.principals[j])
                      /\ Authorizes(g.tag, r)
                      /\ TimeLeq(g.from, t) /\ TimeLeq(t, g.to)

-----------------------------------------------------------------------------
(* What a chain really says: the certificates that are followed by a       *)
(* signature made with the key of their issuer, wherever they are nested.  *)
FieldsOf(cert, type) == SelectSeq(cert.fields, LAMBDA f : f.type = type)
DateIn(cert, type, default) ==
  LET valid == FieldsOf(cert, "valid")
      dates == IF valid = <<>> THEN <<>> ELSE SelectSeq(valid[1].body, LAMBDA f : f.type = type)
  IN IF dates = <<>> THEN default ELSE dates[1].date
Says(cert) ==
  [issuer |-> FieldsOf(cert, "issuer")[1].body[1].key, key |-> FieldsOf(cert, "subject")[1].body[1].key,
   propagate |-> FieldsOf(cert, "propagate") # <<>>,
   from |-> DateIn(cert, "not_before", spki_date_since_ever),
   to |-> DateIn(cert, "not_after", spki_date_for_ever)]

RECURSIVE SignedCerts(_)
SignedCerts(items) ==
  UNION {  IF items[j].type = "signature" THEN SignedCerts(items[j].nested) ELSE {} : j \in 1..Len(items)}
  \cup {Says(items[j]) : j \in {i \in 1..(Len(items) - 1) :
           /\ items[i].type = "cert" /\ items[i + 1].type = "signature"
           /\ items[i + 1].signed = items[i] /\ items[i + 1].by = Says(items[i]).issuer}}

Later(a, b) == IF DateLeq(a, b) THEN b ELSE a
Earlier(a, b) == IF DateLeq(a, b) THEN a ELSE b

(* The rights that follow from a set of rights with one more certificate.  *)
Follows(rights, certs) ==
  rights \cup
  {[key |-> p[2].key, propagate |-> p[2].propagate,
    from |-> Later(p[1].from, p[2].from), to |-> Earlier(p[1].to, p[2].to)] :
     p \in {q \in rights \X certs : q[1].propagate /\ q[1].key = q[2].issuer}}
OwnerGrants ==
  {[key |-> g.key, propagate |-> g.propagate, from |-> g.from, to |-> g.to] : g \in owner.grants}
Rights == LET certs == SignedCerts(chain) IN Follows(Follows(Follows(OwnerGrants, certs), certs), certs)

(* HoldersOnly: spki-reduce writes an entry for a key only when the key    *)
(* holds rights, with that validity and that permission to delegate, from  *)
(* the owner's ACL through certificates signed by their issuers, each but  *)
(* the last with the propagate flag.  What spki-make-signature wrote with  *)
(* any key it can use, spki-check-signature accepts with the data that was *)
(* signed and with no other (without data, always): the digest and the     *)
(* value type one tool writes are those the other wants, and so for a dsa  *)
(* signature of other software.  (It does not say what an entry's tag      *)
(* authorizes.)                                                            *)
HoldersOnly ==
  /\ verdict.tool = "reduce" =>
       \A j \in 1..Len(verdict.entries) :
         LET e == verdict.entries[j]
         IN /\ [key |-> e.key, propagate |-> e.propagate, from |-> e.from, to |-> e.to] \in Rights
            /\ DateLeq(e.from, e.to)
  /\ verdict.tool = "check" =>
       (verdict.status = "good" <=> verdict.message \in {"none", signature[1].signed})
=============================================================================
