------------------------------- MODULE SpkiDb ------------------------------
(***************************************************************************)
(* The ACL database of libspki (spki/certificate.c, parse.c, verify.c,     *)
(* reduce.c): principals known by key or by hash, the parsers of ACLs and  *)
(* certificate sequences, the reduction of a sequence to ACL entries, and  *)
(* the decision spki_authorize makes from the entries.                     *)
(*                                                                         *)
(* A database is a record of its principals, in order of creation, and of  *)
(* its ACL entries.  A digest stands for the key it is computed from.      *)
(* Reference counts and allocation failures are left out.                  *)
(***************************************************************************)
EXTENDS SpkiTag, TLC

CONSTANT KeyType   (* the type of each key expression                      *)

Keys == DOMAIN KeyType
Algorithms == {"md5", "sha1", "sha256"}

-----------------------------------------------------------------------------
(* Dates are strings of 19 octets, compared by memcmp.                     *)
SPKI_DATE_SIZE == 19
spki_date_since_ever == [j \in 1..SPKI_DATE_SIZE |-> 0]
spki_date_for_ever == [j \in 1..SPKI_DATE_SIZE |-> 255]

(* The octets of a decimal number of the given length; the first digit is  *)
(* not reduced.                                                            *)
Power10 == [j \in 0..3 |-> CASE j = 0 -> 1 [] j = 1 -> 10 [] j = 2 -> 100 [] j = 3 -> 1000]
write_decimal(length, x) ==
  [j \in 1..length |-> 48 + (IF j = 1 THEN x ELSE x % Power10[length - j + 1]) \div Power10[length - j]]

Dash == <<45>>
Underscore == <<95>>
Colon == <<58>>
spki_date_from_time_t(t) ==
  write_decimal(4, t[1]) \o Dash \o write_decimal(2, t[2]) \o Dash \o write_decimal(2, t[3]) \o Underscore
  \o write_decimal(2, t[4]) \o Colon \o write_decimal(2, t[5]) \o Colon \o write_decimal(2, t[6])

(* SPKI_DATE_CMP(a, b) <= 0.                                               *)
DateLeq(a, b) ==
  \/ a = b
  \/ \E j \in 1..SPKI_DATE_SIZE : a[j] < b[j] /\ \A k \in 1..(j - 1) : a[k] = b[k]

WellFormedDate(d) ==
  Len(d) = SPKI_DATE_SIZE /\ <<d[5], d[8], d[11], d[14], d[17]>> = Dash \o Dash \o Underscore \o Colon \o Colon

-----------------------------------------------------------------------------
(* Principals.  "of" is the key a principal is, or is the digest of.       *)
Principal(k, known, hashes) ==
  [of |-> k, key |-> known, hashes |-> hashes, alias |-> 0, verifier |-> FALSE]

spki_acl_init == [principals |-> <<>>, acls |-> <<>>]

Found(db, id) == [db |-> db, id |-> id]
AddPrincipal(db, p) == Found([db EXCEPT !.principals = Append(@, p)], Len(db.principals) + 1)

HASH_MATCH(p, k) == Cardinality(p.hashes) = 1 /\ p.of = k

(* Mutant: only the newest of the older principals becomes an alias.       *)
FixFirstAlias(ps, id) ==
  [j \in 1..Len(ps) |->
     IF j = id - 1 /\ ~ps[j].key /\ ps[j].alias = 0 /\ HASH_MATCH(ps[j], ps[id].of)
     THEN [ps[j] EXCEPT !.alias = id] ELSE ps[j]]

(* Older principals that are digests of the same key become aliases of id. *)
spki_principal_fix_aliases(ps, id) ==
  [j \in 1..Len(ps) |->
     IF j < id /\ ~ps[j].key /\ ps[j].alias = 0 /\ HASH_MATCH(ps[j], ps[id].of)
     THEN [ps[j] EXCEPT !.alias = id] ELSE ps[j]]

(* The list of principals starts with the newest one.                      *)
spki_principal_by_key(db, k) ==
  LET ps == db.principals
      matches == {j \in 1..Len(ps) : IF ps[j].key THEN ps[j].of = k ELSE HASH_MATCH(ps[j], k)}
      id == Max(matches)
      named == [ps EXCEPT ![id].key = TRUE, ![id].hashes = Algorithms]
  IN IF matches = {} THEN AddPrincipal(db, Principal(k, TRUE, Algorithms))
     ELSE IF ps[id].key THEN Found(db, id)
     ELSE Found([db EXCEPT !.principals = spki_principal_fix_aliases(named, id)], id)

spki_principal_by_hash(db, algorithm, k) ==
  LET ps == db.principals
      matches == {j \in 1..Len(ps) : algorithm \in ps[j].hashes /\ ps[j].of = k}
  IN IF matches = {} THEN AddPrincipal(db, Principal(k, FALSE, {algorithm})) ELSE Found(db, Max(matches))

spki_principal_normalize(db, id) ==
  LET step[j \in 1..Len(db.principals)] ==
        IF db.principals[j].alias = 0 THEN j ELSE step[db.principals[j].alias]
  IN step[id]

-----------------------------------------------------------------------------
(* The parsers.  A parser holds the database, whether all went well so     *)
(* far, the expressions still to be read on its level, and the tuple being *)
(* filled in.                                                              *)
NoPrincipal == 0
spki_5_tuple_init ==
  [issuer |-> NoPrincipal, subject |-> NoPrincipal, propagate |-> FALSE, flags |-> {}, tag |-> Invalid,
   not_before |-> spki_date_since_ever, not_after |-> spki_date_for_ever]

Parser(db, items) == [db |-> db, ok |-> TRUE, rest |-> items, tuple |-> spki_5_tuple_init]
spki_parse_fail(p) == [p EXCEPT !.ok = FALSE]
spki_parse_skip(p) == [p EXCEPT !.rest = Tail(@)]
Type(p) == IF ~p.ok THEN "error" ELSE IF p.rest = <<>> THEN "end" ELSE p.rest[1].type

(* A principal is a public key, or an md5 or sha1 digest of one.           *)
spki_parse_principal(db, e) ==
  CASE e.type = "public-key" -> spki_principal_by_key(db, e.key)
    [] e.type = "hash" /\ e.algorithm \in {"md5", "sha1"} -> spki_principal_by_hash(db, e.algorithm, e.key)
    [] OTHER -> Found(db, NoPrincipal)

(* (subject P) or (issuer P), with nothing after the principal.            *)
ParseNamed(p, field) ==
  IF Type(p) # field \/ p.rest[1].body = <<>> THEN spki_parse_fail(p)
  ELSE LET r == spki_parse_principal(p.db, p.rest[1].body[1])
           q == [p EXCEPT !.db = r.db]
       IN IF r.id = NoPrincipal \/ Len(p.rest[1].body) # 1 THEN spki_parse_fail(q)
          ELSE [spki_parse_skip(q) EXCEPT !.tuple[field] = r.id]
spki_parse_subject(p) == ParseNamed(p, "subject")
spki_parse_issuer(p) == ParseNamed(p, "issuer")

ParsePropagate(p) == IF Type(p) = "propagate" THEN [spki_parse_skip(p) EXCEPT !.tuple.propagate = TRUE] ELSE p
Skips(p, type) == IF Type(p) = type THEN spki_parse_skip(p) ELSE p

(* A failed assertion ends the program: nothing comes of what is parsed.   *)
spki_parse_tag(p) ==
  IF Type(p) # "tag" \/ Unusable(spki_tag_compile(p.rest[1].tag)) THEN spki_parse_fail(p)
  ELSE [spki_parse_skip(p) EXCEPT !.tuple.tag = spki_tag_compile(p.rest[1].tag)]

spki_parse_date(p, field) ==
  IF ~WellFormedDate(p.rest[1].date) THEN spki_parse_fail(p)
  ELSE [spki_parse_skip(p) EXCEPT !.tuple[field] = p.rest[1].date, !.tuple.flags = @ \cup {field}]

(* (valid (not-before D)? (not-after D)?): nothing else may follow.        *)
spki_parse_valid(p) ==
  LET inner == [p EXCEPT !.rest = p.rest[1].body]
      before == IF Type(inner) = "not_before" THEN spki_parse_date(inner, "not_before") ELSE inner
      after == IF Type(before) = "not_after" THEN spki_parse_date(before, "not_after") ELSE before
  IN IF Type(after) = "end" THEN [after EXCEPT !.rest = Tail(p.rest)] ELSE spki_parse_fail(after)

ParseVersion(p) ==
  IF Type(p) # "version" THEN p ELSE IF p.rest[1].number = 0 THEN spki_parse_skip(p) ELSE spki_parse_fail(p)
ParseValid(p) == IF Type(p) = "valid" THEN spki_parse_valid(p) ELSE p
spki_parse_end(p) == IF Type(p) = "end" THEN p ELSE spki_parse_fail(p)

(* The fields of an entry; a comment is expected before the validity.      *)
spki_parse_acl_entry(db, fields) ==
  spki_parse_end(ParseValid(Skips(spki_parse_tag(ParsePropagate(spki_parse_subject(Parser(db, fields)))),
                                  "comment")))

spki_parse_cert(db, fields) ==
  LET named == spki_parse_issuer(Skips(ParseVersion(Parser(db, fields)), "display"))
      subject == Skips(spki_parse_subject(Skips(named, "issuer-info")), "subject-info")
  IN spki_parse_end(Skips(ParseValid(spki_parse_tag(ParsePropagate(subject))), "comment"))

Consed(p, list) == [db |-> p.db, ok |-> p.ok, list |-> <<p.tuple>> \o list]

(* One ACL: its entries are consed up, so that the last one comes first,   *)
(* and an ACL without entries is refused.                                  *)
spki_parse_acl(db, acl) ==
  LET first == ParseVersion(Parser(db, acl.items))
      n == Len(first.rest)
      step[j \in 0..n] ==
        IF j = 0 THEN [db |-> first.db, ok |-> first.ok, list |-> <<>>]
        ELSE LET before == step[j - 1]
             IN IF ~before.ok \/ first.rest[j].type # "entry" THEN [before EXCEPT !.ok = FALSE]
                ELSE Consed(spki_parse_acl_entry(before.db, first.rest[j].fields), before.list)
  IN [step[n] EXCEPT !.ok = @ /\ n > 0]

AddEntries(r) == [ok |-> r.ok, db |-> IF r.ok THEN [r.db EXCEPT !.acls = @ \o r.list] ELSE r.db]
spki_acl_process(db, acl) == AddEntries(spki_parse_acl(db, acl))

(* A file of ACLs is read up to the first invalid one; what came before    *)
(* stays.                                                                  *)
spki_add_acls(db, file) ==
  LET step[j \in 0..Len(file)] ==
        IF j = 0 THEN [ok |-> TRUE, db |-> db]
        ELSE LET before == step[j - 1]
             IN IF before.ok THEN spki_acl_process(before.db, file[j]) ELSE before
  IN step[Len(file)]

-----------------------------------------------------------------------------
(* Signatures.  A signature expression names the digest it signs, the      *)
(* principal, the key it was really made with, and any expressions left    *)
(* after the signature value.                                              *)
spki_hash_verify(signature, cert) == signature.signed = cert

(* The types of spki-types.in; every other one is a syntax error.          *)
KnownTypes ==
  {"end", "acl", "cert", "comment", "display", "do", "dsa-sha1", "dsa-sha256", "entry", "hash", "issuer",
   "issuer-info", "md5", "name", "not_after", "not_before", "propagate", "private-key", "public-key",
   "rsa-pkcs1-md5", "rsa-pkcs1-sha1", "sequence", "sha1", "sha256", "signature", "subject", "subject-info",
   "tag", "valid", "version"}

(* The digest a key of each type is used with.  A key of type dsa-sha256   *)
(* has none: the case meant for it is the one of the type sha256.          *)
Rsa(type) == type \in {"rsa-pkcs1-md5", "rsa-pkcs1-sha1"}
VerifyHash ==
  "rsa-pkcs1-md5" :> "md5" @@ "rsa-pkcs1-sha1" :> "sha1" @@ "dsa-sha1" :> "sha1" @@ "sha256" :> "sha256"

(* Verification needs the key of the very principal, not of an alias.      *)
(* Only with rsa must the signature value be of the key's type.            *)
spki_verify(db, id, signature) ==
  LET type == KeyType[db.principals[id].of]
  IN /\ db.principals[id].key
     /\ type \in DOMAIN VerifyHash
     /\ signature.algorithm = VerifyHash[type]
     /\ Rsa(type) => signature.value = type
     /\ signature.by = db.principals[id].of

(* The walk over a certificate sequence.  A valid rsa signature leaves the *)
(* iterator inside the signature expression, behind the signature value:   *)
(* what is nested there is read next, and at its end the walk is over,     *)
(* whatever follows the signature in the sequence.  A dsa signature leaves *)
(* it in the signature value, which is read next as an item of its type.   *)
NoCert == [type |-> "none"]
Walk(db, items) ==
  [db |-> db, ok |-> TRUE, list |-> <<>>, subject |-> NoPrincipal, issuer |-> NoPrincipal,
   pending |-> NoCert, rest |-> items, outer |-> "end"]

AfterCert(w, p) ==
  IF w.pending # NoCert \/ ~p.ok THEN [w EXCEPT !.ok = FALSE, !.db = p.db]
  ELSE [w EXCEPT !.db = p.db, !.list = <<p.tuple>> \o @, !.subject = p.tuple.subject,
                 !.issuer = p.tuple.issuer, !.pending = w.rest[1], !.rest = Tail(@)]
WalkCert(w) == AfterCert(w, spki_parse_cert(w.db, w.rest[1].fields))

WalkKey(w) ==
  LET r == spki_principal_by_key(w.db, w.rest[1].key)
  IN [w EXCEPT !.db = r.db, !.subject = r.id, !.rest = Tail(@)]

WalkSignature(w) ==
  LET s == w.rest[1]
      r == spki_parse_principal(w.db, s.principal)
      valid == /\ s.value \in KnownTypes
               /\ r.id = spki_principal_normalize(r.db, w.issuer)
               /\ spki_verify(r.db, w.issuer, s)
      value == IF Rsa(KeyType[s.by]) THEN <<>> ELSE <<[type |-> s.value, fields |-> <<>>]>>
      next == Tail(w.rest)
  IN IF w.pending = NoCert THEN [w EXCEPT !.rest = next]
     ELSE IF ~spki_hash_verify(s, w.pending) THEN [w EXCEPT !.ok = FALSE]
     ELSE IF ~valid THEN [w EXCEPT !.ok = FALSE, !.db = r.db]
     ELSE [w EXCEPT !.db = r.db, !.pending = NoCert, !.rest = value \o s.nested,
                    !.outer = IF next = <<>> THEN "end" ELSE next[1].type]

RECURSIVE parse_sequence(_)
parse_sequence(w) ==
  IF ~w.ok THEN [w EXCEPT !.list = <<>>, !.subject = NoPrincipal]
  ELSE IF w.rest = <<>>
  THEN IF w.outer \in KnownTypes /\ w.subject # NoPrincipal /\ w.pending = NoCert
       THEN [w EXCEPT !.subject = spki_principal_normalize(w.db, w.subject)]
       ELSE [w EXCEPT !.ok = FALSE, !.list = <<>>, !.subject = NoPrincipal]
  ELSE parse_sequence(CASE w.rest[1].type = "cert" -> WalkCert(w)
                        [] w.rest[1].type = "public-key" -> WalkKey(w)
                        [] w.rest[1].type = "signature" -> WalkSignature(w)
                        [] w.rest[1].type = "do" -> [w EXCEPT !.rest = Tail(@)]
                        [] OTHER -> [w EXCEPT !.ok = FALSE])
spki_parse_sequence(db, items) == parse_sequence(Walk(db, items))

-----------------------------------------------------------------------------
(* The tuples for a subject, in list order.                                *)
BySubject(db, list, subject) ==
  SelectSeq(list, LAMBDA t : spki_principal_normalize(db, t.subject) = spki_principal_normalize(db, subject))

ValidityMeets(a, b) == DateLeq(a.not_before, b.not_after) /\ DateLeq(b.not_before, a.not_after)
validity_intersect(result, a, b) ==
  [result EXCEPT !.not_before = IF DateLeq(a.not_before, b.not_before) THEN b.not_before ELSE a.not_before,
                 !.not_after = IF DateLeq(b.not_after, a.not_after) THEN b.not_after ELSE a.not_after,
                 !.flags = a.flags \cup b.flags]

(* The entry that a known entry and a certificate reduce to.               *)
Reduced(known, cert) ==
  validity_intersect([spki_5_tuple_init EXCEPT !.issuer = known.issuer, !.subject = cert.subject,
                        !.tag = spki_tag_intersect(known.tag, cert.tag), !.propagate = cert.propagate],
                     known, cert)

(* Mutant: the permission to delegate is not asked for.                    *)
ReduceWithoutPropagate(db, list, cert) ==
  LET known == SelectSeq(BySubject(db, list, cert.issuer), LAMBDA t : ValidityMeets(t, cert))
      results == [j \in 1..Len(known) |-> Reduced(known[j], cert)]
  IN Reverse(SelectSeq(results, LAMBDA t : t.tag # Invalid)) \o list

(* New entries go to the front of the list being searched.                 *)
reduce_with_list(db, list, cert) ==
  LET known == SelectSeq(BySubject(db, list, cert.issuer),
                         LAMBDA t : t.propagate /\ ValidityMeets(t, cert))
      results == [j \in 1..Len(known) |-> Reduced(known[j], cert)]
  IN Reverse(SelectSeq(results, LAMBDA t : t.tag # Invalid)) \o list

(* The certificates are taken in the order of the list, which is the       *)
(* reverse of the order they have in the sequence.                         *)
spki_5_tuple_reduce(db, sequence) ==
  LET step[j \in 0..Len(sequence)] ==
        IF j = 0 THEN db.acls ELSE reduce_with_list(db, step[j - 1], sequence[j])
  IN step[Len(sequence)]

-----------------------------------------------------------------------------
(* Whether an entry for the user includes the access and is valid at t.    *)
spki_authorize(db, user, t, access) ==
  LET now == spki_date_from_time_t(t)
      tag == spki_tag_compile(access)
  IN /\ tag # Invalid
     /\ \E j \in 1..Len(db.acls) :
          LET acl == db.acls[j]
          IN /\ spki_principal_normalize(db, acl.subject) = spki_principal_normalize(db, user)
             /\ spki_tag_includes(acl.tag, tag)
             /\ DateLeq(acl.not_before, now) /\ DateLeq(now, acl.not_after)
=============================================================================
