------------------------------- MODULE MCSpki ------------------------------
(***************************************************************************)
(* Spki for TLC: three keys, tags of every form, ACL files with keys and   *)
(* digests in every order, and certificate sequences of other software.    *)
(***************************************************************************)
EXTENDS Spki

MCKeyType == [k0 |-> "rsa-pkcs1-sha1", k1 |-> "rsa-pkcs1-md5", k2 |-> "dsa-sha1"]

Ftp == Atom(<<"f">>)
Read == Atom(<<"r">>)
Write == Atom(<<"r", "w">>)
Other == [Read EXCEPT !.display = "text"]
FtpRead == List(<<Ftp, Read>>)
FtpWrite == List(<<Ftp, Write>>)
Everything == List(<<Star>>)
Prefix == List(<<Ftp, List(<<Star, PrefixForm, Read>>)>>)
Nested == List(<<Star, SetForm, List(<<Star, SetForm, FtpRead, Ftp>>), List(<<Write, Ftp>>)>>)
OneOf == List(<<Star, SetForm, FtpWrite>>)
Bad == List(<<Star, Atom(<<"x">>)>>)
MCRequests == {Ftp, FtpRead, FtpWrite, List(<<Ftp, Read, Write>>), List(<<Ftp, Other>>), List(<<Write, Ftp>>)}

Never == <<0, 0, 0, 0, 0, 0>>
Forever == <<9999, 12, 31, 23, 59, 59>>
Noon == <<2003, 9, 30, 12, 0, 0>>
Autumn == <<2003, 10, 2, 1, 0, 59>>
MCTimes == {<<2003, 9, 30, 9, 59, 59>>, Noon, Autumn, <<2010, 1, 1, 0, 0, 0>>}

TagField(tag) == [type |-> "tag", tag |-> tag]
NotBefore(t) == [type |-> "not_before", date |-> spki_date_from_time_t(t)]
NotAfter(t) == [type |-> "not_after", date |-> spki_date_from_time_t(t)]
Valid(dates) == [type |-> "valid", body |-> dates]
Entry(fields) == [type |-> "entry", fields |-> fields]
AclKey(tag) == Acl(<<Entry(<<Field("subject", Key("k0")), TagField(tag)>>)>>,
                   {Grant("key", "k0", FALSE, tag, Never, Forever)})
AclMd5 == Acl(<<[type |-> "version", number |-> 0],
                Entry(<<Field("subject", Hash("md5", "k0")), TagField(Nested), [type |-> "comment"],
                        Valid(<<NotBefore(Noon), NotAfter(Autumn)>>)>>),
                Entry(<<Field("subject", Hash("sha1", "k1")), [type |-> "propagate"], TagField(Prefix)>>)>>,
              {Grant("md5", "k0", FALSE, Nested, Noon, Autumn), Grant("sha1", "k1", TRUE, Prefix, Never, Forever)})
AclSha1 == Acl(<<Entry(<<Field("subject", Hash("sha1", "k0")), TagField(OneOf), Valid(<<NotAfter(Noon)>>)>>)>>,
               {Grant("sha1", "k0", FALSE, OneOf, Never, Noon)})
AclBad == {Acl(items, {}) :
             items \in {<<>>, <<[type |-> "version", number |-> 1]>>, <<[type |-> "do"]>>,
                        <<Entry(<<Field("subject", Hash("sha256", "k1")), TagField(Everything)>>)>>,
                        <<Entry(<<Field("subject", Hash("md5", "k1")), TagField(Bad)>>)>>,
                        <<Entry(<<[type |-> "subject", body |-> <<>>], TagField(Everything)>>)>>,
                        <<Entry(<<Field("subject", Key("k1")), TagField(Everything),
                                  Valid(<<[type |-> "not_before", date |-> <<50>>]>>)>>)>>,
                        <<Entry(<<Field("subject", Key("k1")), TagField(Everything),
                                  Valid(<<NotAfter(Noon), NotBefore(Noon)>>)>>)>>}}
MCAclFiles == {<<AclKey(FtpRead)>>, <<AclMd5>>, <<AclSha1>>, <<AclKey(Everything), AclSha1>>}
              \cup {<<AclSha1, a, AclMd5>> : a \in AclBad}

-----------------------------------------------------------------------------
Empty == Acl(<<>>, {})
HashOwner == Acl(<<Entry(EntryFields(Hash("sha1", "k0"), TRUE, Everything))>>,
                 {Grant("sha1", "k0", TRUE, Everything, spki_date_since_ever, spki_date_for_ever)})
MCOwners == {Empty, HashOwner}
MCOwnerTags == {FtpRead}

Dated(issuer, subject, dates) ==
  LET c == Cert(issuer, subject, TRUE, Everything) IN [c EXCEPT !.fields = Append(@, Valid(dates))]
Before == Dated(Key("k0"), Key("k1"), <<NotAfter(Noon)>>)
After == Dated(Key("k1"), Key("k2"), <<NotBefore(Noon), NotAfter(Autumn)>>)
Link(cert, k, nested) == <<cert, [spki_sign(k, cert) EXCEPT !.nested = nested]>>
ByHash == Cert(Hash("md5", "k0"), Hash("sha1", "k1"), TRUE, Everything)
ToDsa == Cert(Key("k0"), Key("k2"), TRUE, Everything)
OfDsa == Cert(Key("k2"), Key("k1"), TRUE, Everything)
Unfinished == [type |-> "cert", fields |-> <<[type |-> "display"], Field("issuer", Key("k0"))>>]
MCOtherChains ==
  { <<Key("k0")>>, <<Key("k0"), [type |-> "do"]>> \o Link(Before, "k0", <<>>),
    Link(Before, "k0", <<>>) \o Link(After, "k1", <<>>),
    Link(After, "k1", Link(Before, "k0", <<Key("k2")>>)),
    Link(After, "k1", Link(Dated(Key("k0"), Key("k1"), <<NotBefore(Autumn)>>), "k0", <<Key("k2")>>)),
    <<Key("k0")>> \o Link(ByHash, "k0", <<Key("k1")>>), Link(ByHash, "k0", <<>>),
    <<Before, spki_sign("k0", After)>>, <<Before, After>>, <<spki_sign("k0", After)>>, <<Unfinished>>,
    Link(Before, "k0", <<>>) \o <<[type |-> "version", number |-> 0]>>, <<[type |-> "tag", tag |-> Everything]>>,
    Link(Before, "k0", <<>>) \o <<[type |-> "object"]>>, Link(ToDsa, "k0", Link(OfDsa, "k2", <<>>)),
    Link(ToDsa, "k0", <<OfDsa, [spki_sign("k2", OfDsa) EXCEPT !.value = "do"]>>) }
MCOtherSignatures == {spki_sign("k2", "m1")}
MCTags == {Everything, FtpWrite, Prefix}
=============================================================================
