-------------------------- MODULE EnrollmentProofs --------------------------
(* Proofs about Enrollment, for any number of devices, codes, hosts and     *)
(* runs of enroll.                                                           *)
EXTENDS Enrollment, TLAPS

-----------------------------------------------------------------------------
(* Types *)

LEMMA RowType ==
    ASSUME TypeOK, NEW id \in Ids
    PROVE  /\ row[id] \in Row /\ row[id].state \in {"absent", "pending", "claimed", "deleted"}
           /\ row[id].code \in Codes \cup {None} /\ row[id].timely \in BOOLEAN
           /\ row[id].revoked \in BOOLEAN /\ row[id].cert \in Tries \cup {None}
BY DEF TypeOK, Row

\* A statement that gives one row another value.
LEMMA RowChange ==
    ASSUME TypeOK, NEW id \in Ids, NEW r \in Row, r.state = "claimed" <=> r.cert # None,
           row' = [row EXCEPT ![id] = r], issued' \in SUBSET Codes,
           UNCHANGED <<lock, runs, handling, files>>
    PROVE  TypeOK' /\ row'[id] = r /\ \A d \in Ids : d # id => row'[d] = row[d]
BY DEF TypeOK, runs, handling, files

\* What a selected row is: locked, and as the SELECT found it.
Selected ==
    \A t \in Tries : handler[t] \in {"selected", "updated"} =>
        /\ found[t] \in Ids /\ lock[found[t]] = t
        /\ code[t] \in Codes /\ row[found[t]].code = code[t]
        /\ Claimable(found[t])

\* A run that has not begun has no handler; one that has, has a host and a code.
Begun ==
    \A t \in Tries :
        /\ agent[t] = "none" => handler[t] = "none"
        /\ agent[t] # "none" => host[t] \in Hosts /\ code[t] \in Codes

\* The claim of t is committed, and the row has not been deleted since.
Registered(t) ==
    /\ found[t] \in Ids /\ handler[t] = "over"
    /\ \/ row[found[t]].state = "claimed" /\ row[found[t]].cert = t
       \/ row[found[t]].state = "deleted"

\* Whoever has an answer, on the way or on disk, is registered.
Answered ==
    /\ \A t \in Tries : t \in reply \/ agent[t] \in {"certifying", "configuring", "done"} =>
          Registered(t)
    /\ \A h \in Hosts : crt[h] \in Tries => Registered(crt[h]) /\ host[crt[h]] = h
                                            /\ agent[crt[h]] # "none"

\* Files are written in order.
Ordered ==
    /\ \A t \in Tries : agent[t] = "configuring" => crt[host[t]] = t
    /\ \A h \in Hosts : json[h] \in Ids => crt[h] \in Tries /\ json[h] = found[crt[h]]

Inv == TypeOK /\ Selected /\ Begun /\ Answered /\ Ordered

LEMMA InvAtFirst == Init => Inv
BY EnrollmentAssumption
   DEF Init, Inv, TypeOK, Row, NoRow, Selected, Begun, Answered, Ordered, Registered, Claimable

-----------------------------------------------------------------------------
(* The operator's steps.  A locked row is not his to change, except that its *)
(* time runs out; what is registered stays so or is deleted.                 *)

LEMMA OperatorInv ==
    ASSUME Inv, UNCHANGED <<lock, runs, handling, files>>, TypeOK',
           \A id \in Ids :
              /\ lock[id] # None /\ Claimable(id) => row'[id].code = row[id].code /\ Claimable(id)'
              /\ row[id].state = "claimed" =>
                    \/ row'[id].state = "deleted"
                    \/ row'[id].state = "claimed" /\ row'[id].cert = row[id].cert
              /\ row[id].state = "deleted" => row'[id].state = "deleted"
    PROVE  Inv'
<1> USE DEF Inv, runs, handling, files
<1>1. Selected'
  BY EnrollmentAssumption DEF Selected, Claimable
<1>2. Begun'
  BY DEF Begun
<1>3. \A t \in Tries : Registered(t) => Registered(t)'
  BY DEF Registered
<1>4. Answered'
  BY <1>3 DEF Answered
<1>5. Ordered'
  BY DEF Ordered
<1>6. QED
  BY <1>1, <1>2, <1>4, <1>5

LEMMA OperateInv ==
    ASSUME Inv, NEW id \in Ids, Operate(id)
    PROVE  Inv'
<1>1. TypeOK /\ row[id] \in Row /\ (row[id].state = "claimed" <=> row[id].cert # None)
  BY DEF Inv, TypeOK
<1>2. ASSUME NEW r \in Row, r.state = "claimed" <=> r.cert # None,
             row' = [row EXCEPT ![id] = r], issued' \in SUBSET Codes,
             UNCHANGED <<lock, runs, handling, files>>,
             lock[id] # None /\ Claimable(id) =>
                 r.state = "pending" /\ ~r.revoked /\ r.code = row[id].code,
             row[id].state \in {"claimed", "deleted"} =>
                 r.state = "deleted" \/ (r.state = row[id].state /\ r.cert = row[id].cert)
      PROVE  Inv'
  <2>1. TypeOK' /\ row'[id] = r /\ \A d \in Ids : d # id => row'[d] = row[d]
    BY <1>1, <1>2, RowChange
  <2>2. QED
    BY <1>2, <2>1, OperatorInv DEF Claimable
<1>3. ASSUME NEW c \in Codes, Create(id, c) PROVE Inv'
  <2> DEFINE r == [row[id] EXCEPT !.state = "pending", !.code = c, !.timely = TRUE]
  <2>1. r \in Row /\ (r.state = "claimed" <=> r.cert # None)
    BY <1>1, <1>3 DEF Create, Row, TypeOK
  <2>2. row' = [row EXCEPT ![id] = r] /\ issued' \in SUBSET Codes
    BY <1>1, <1>3 DEF Create, TypeOK
  <2>3. QED
    BY <1>1, <1>2, <1>3, <2>1, <2>2 DEF Create, Claimable, Row
<1>4. ASSUME NEW c \in Codes, Regenerate(id, c) PROVE Inv'
  <2> DEFINE r == [row[id] EXCEPT !.code = c, !.timely = TRUE]
  <2>1. r \in Row /\ (r.state = "claimed" <=> r.cert # None)
    BY <1>1, <1>4 DEF Regenerate, Row, Claimable, TypeOK
  <2>2. row' = [row EXCEPT ![id] = r] /\ issued' \in SUBSET Codes
    BY <1>1, <1>4 DEF Regenerate, TypeOK
  <2>3. QED
    BY <1>1, <1>2, <1>4, <2>1, <2>2 DEF Regenerate, Claimable, Row
<1>5. CASE Revoke(id)
  <2> DEFINE r == [row[id] EXCEPT !.revoked = TRUE, !.code = None]
  <2>1. r \in Row /\ (r.state = "claimed" <=> r.cert # None)
    BY <1>1, <1>5 DEF Revoke, Row, TypeOK
  <2>2. row' = [row EXCEPT ![id] = r] /\ issued' \in SUBSET Codes
    BY <1>1, <1>5 DEF Revoke, TypeOK
  <2>3. QED
    BY <1>1, <1>2, <1>5, <2>1, <2>2 DEF Revoke, Claimable, Row
<1>6. CASE DeleteRevoked(id)
  <2> DEFINE r == [NoRow EXCEPT !.state = "deleted"]
  <2>1. r \in Row /\ (r.state = "claimed" <=> r.cert # None)
    BY <1>1, <1>6 DEF DeleteRevoked, Row, NoRow, TypeOK
  <2>2. row' = [row EXCEPT ![id] = r] /\ issued' \in SUBSET Codes
    BY <1>1, <1>6 DEF DeleteRevoked, TypeOK
  <2>3. r.state = "deleted" /\ lock[id] = None
    BY <1>6 DEF DeleteRevoked, NoRow
  <2>4. UNCHANGED <<lock, runs, handling, files>>
    BY <1>6 DEF DeleteRevoked
  <2>5. /\ lock[id] # None /\ Claimable(id) =>
              r.state = "pending" /\ ~r.revoked /\ r.code = row[id].code
        /\ row[id].state \in {"claimed", "deleted"} =>
              r.state = "deleted" \/ (r.state = row[id].state /\ r.cert = row[id].cert)
    BY <2>3
  <2> HIDE DEF r
  <2>6. QED
    BY <1>2, <2>1, <2>2, <2>4, <2>5
<1>7. CASE Expire(id)
  <2> DEFINE r == [row[id] EXCEPT !.timely = FALSE]
  <2>1. r \in Row /\ (r.state = "claimed" <=> r.cert # None)
    BY <1>1, <1>7 DEF Expire, Row, TypeOK
  <2>2. row' = [row EXCEPT ![id] = r] /\ issued' \in SUBSET Codes
    BY <1>1, <1>7 DEF Expire, TypeOK
  <2>3. QED
    BY <1>1, <1>2, <1>7, <2>1, <2>2 DEF Expire, Claimable, Row
<1>8. QED
  BY <1>3, <1>4, <1>5, <1>6, <1>7 DEF Operate

-----------------------------------------------------------------------------
(* The transaction *)

LEMMA ClaimInv ==
    ASSUME Inv, NEW t \in Tries, Claim(t)
    PROVE  Inv'
<1> USE DEF Inv
<1>1. ASSUME NEW id \in Ids, Select(t, id) PROVE Inv'
  <2>1. TypeOK'
    BY <1>1 DEF Select, TypeOK, runs, files
  <2>2. code[t] \in Codes
    BY <1>1 DEF Select, Begun, TypeOK
  <2>3. Selected'
    BY <1>1, <2>2, EnrollmentAssumption DEF Select, Matches, Selected, Claimable, TypeOK, runs
  <2>4. Begun'
    BY <1>1 DEF Select, Begun, TypeOK, runs
  <2>5. \A u \in Tries : Registered(u) => u # t /\ Registered(u)'
    BY <1>1 DEF Select, Registered, TypeOK
  <2>6. Answered' /\ Ordered'
    BY <1>1, <2>5 DEF Select, Answered, Ordered, TypeOK, runs, files
  <2>7. QED
    BY <2>1, <2>3, <2>4, <2>6
<1>2. CASE Update(t)
  <2>1. TypeOK'
    BY <1>2 DEF Update, TypeOK, table, runs, files
  <2>2. Selected' /\ Begun'
    BY <1>2 DEF Update, Selected, Begun, Claimable, TypeOK, table, runs
  <2>3. \A u \in Tries : Registered(u) => u # t /\ Registered(u)'
    BY <1>2 DEF Update, Registered, TypeOK, table
  <2>4. Answered' /\ Ordered'
    BY <1>2, <2>3 DEF Update, Answered, Ordered, TypeOK, runs, files
  <2>5. QED
    BY <2>1, <2>2, <2>4
<1>3. CASE Commit(t)
  <2>1. found[t] \in Ids /\ lock[found[t]] = t /\ row[found[t]].state = "pending"
    BY <1>3 DEF Commit, Selected, Claimable
  <2>2. TypeOK'
    <3> DEFINE r == [row[found[t]] EXCEPT !.state = "claimed", !.code = None, !.cert = t]
    <3>1. row[found[t]] \in Row
      BY <2>1 DEF TypeOK
    <3>2. r \in Row /\ r.state = "claimed" /\ r.cert = t
      BY <3>1 DEF Row
    <3>3. row' = [row EXCEPT ![found[t]] = r]
      BY <1>3 DEF Commit
    <3>4. /\ row' \in [Ids -> Row]
          /\ \A id \in Ids : row'[id].state = "claimed" <=> row'[id].cert # None
      BY <2>1, <3>2, <3>3, EnrollmentAssumption DEF TypeOK
    <3>5. lock' \in [Ids -> Tries \cup {None}]
      BY <1>3 DEF Commit, Over, TypeOK
    <3>6. QED
      BY <1>3, <3>4, <3>5 DEF Commit, Over, TypeOK, runs, files
  <2>3. \A u \in Tries \ {t} : handler[u] \in {"selected", "updated"} =>
            found[u] # found[t] /\ lock'[found[u]] = u
    BY <1>3, <2>1 DEF Commit, Over, Selected, TypeOK
  <2>4. Selected'
    BY <1>3, <2>3 DEF Commit, Over, Selected, Claimable, TypeOK, runs
  <2>5. Begun'
    BY <1>3 DEF Commit, Over, Begun, TypeOK, runs
  <2>6. \A u \in Tries : Registered(u) => u # t /\ found[u] # found[t] /\ Registered(u)'
    BY <1>3, <2>1 DEF Commit, Over, Registered, TypeOK
  <2>7. Registered(t)'
    BY <1>3, <2>1, RowType DEF Commit, Over, Registered, TypeOK, Row
  <2>8. Answered' /\ Ordered'
    BY <1>3, <2>6, <2>7 DEF Commit, Answered, Ordered, runs, files
  <2>9. QED
    BY <2>2, <2>4, <2>5, <2>8
<1>4. CASE RollBack(t)
  <2>1. TypeOK'
    BY <1>4 DEF RollBack, Over, TypeOK, runs, files
  <2>2. Selected' /\ Begun'
    BY <1>4, EnrollmentAssumption DEF RollBack, Over, Selected, Begun, Claimable, TypeOK, runs
  <2>3. \A u \in Tries : Registered(u) => Registered(u)'
    BY <1>4 DEF RollBack, Over, Registered, TypeOK
  <2>4. Answered' /\ Ordered'
    BY <1>4, <2>3 DEF RollBack, Answered, Ordered, runs, files
  <2>5. QED
    BY <2>1, <2>2, <2>4
<1>5. QED
  BY <1>1, <1>2, <1>3, <1>4 DEF Claim

-----------------------------------------------------------------------------
(* The host *)

LEMMA EnrollInv ==
    ASSUME Inv, NEW t \in Tries, Enroll(t)
    PROVE  Inv'
<1> USE DEF Inv
<1>1. ASSUME NEW h \in Hosts, NEW c \in Codes, Start(t, h, c) PROVE Inv'
  <2>1. TypeOK'
    BY <1>1 DEF Start, Goto, TypeOK, table
  <2>2. handler[t] = "none"
    BY <1>1 DEF Start, Begun
  <2>3. Selected'
    BY <1>1, <2>2 DEF Start, Selected, Claimable, TypeOK, table
  <2>4. Begun'
    BY <1>1 DEF Start, Goto, Begun, TypeOK
  <2>5. \A u \in Tries : Registered(u) => u # t /\ Registered(u)'
    BY <1>1, <2>2 DEF Start, Registered, TypeOK, table
  <2>6. \A u \in Tries : u # t => agent'[u] = agent[u] /\ host'[u] = host[u]
    BY <1>1 DEF Start, Goto, TypeOK
  <2>7. agent'[t] \in {"posting", "failed"}
    BY <1>1 DEF Start, Goto, TypeOK
  <2>8. Answered'
    BY <1>1, <2>5, <2>6, <2>7 DEF Start, Answered
  <2>9. Ordered'
    BY <1>1, <2>6, <2>7 DEF Start, Ordered
  <2>10. QED
    BY <2>1, <2>3, <2>4, <2>8, <2>9
<1>2. ASSUME UNCHANGED <<table, host, code, handler, found>>, reply' \subseteq reply,
             UNCHANGED <<crt, json>>, TypeOK', NEW a \in {"certifying", "failed"},
             Goto(t, a), agent[t] # "none", a = "certifying" => t \in reply
      PROVE  Inv'
  <2>1. agent' = [agent EXCEPT ![t] = a]
    BY <1>2 DEF Goto
  <2>2. \A u \in Tries : Registered(u) => Registered(u)'
    BY <1>2 DEF Registered, table
  <2>3. Selected' /\ Begun'
    BY <1>2, <2>1 DEF Selected, Begun, Claimable, TypeOK, table
  <2>4. Answered'
    BY <1>2, <2>1, <2>2 DEF Answered, TypeOK
  <2>5. Ordered'
    BY <1>2, <2>1 DEF Ordered, TypeOK
  <2>6. QED
    BY <1>2, <2>3, <2>4, <2>5
<1>3. CASE Receive(t)
  <2>1. TypeOK'
    BY <1>3 DEF Receive, Goto, TypeOK, table, files
  <2>2. QED
    BY <1>2, <1>3, <2>1 DEF Receive, files
<1>4. CASE Fail(t)
  <2>1. TypeOK'
    BY <1>4 DEF Fail, Goto, TypeOK, table, handling, files
  <2>2. QED
    BY <1>2, <1>4, <2>1 DEF Fail, Running, handling, files
<1>5. CASE StoreCertificate(t)
  <2>1. TypeOK'
    BY <1>5 DEF StoreCertificate, Goto, TypeOK, table, handling
  <2>2. host[t] \in Hosts /\ Registered(t)
    BY <1>5 DEF StoreCertificate, Begun, Answered
  <2>3. \A u \in Tries : Registered(u) => Registered(u)'
    BY <1>5 DEF StoreCertificate, Registered, table, handling
  <2>4. Selected' /\ Begun'
    BY <1>5 DEF StoreCertificate, Goto, Selected, Begun, Claimable, TypeOK, table, handling
  <2>5. CASE Goto(t, "configuring") /\ crt' = [crt EXCEPT ![host[t]] = t]
    <3>1. Answered'
      BY <1>5, <2>2, <2>3, <2>5 DEF StoreCertificate, Goto, Answered, TypeOK, handling
    <3>2. \A u \in Tries : agent[u] = "configuring" => host[u] # host[t]
      BY <1>5, EnrollmentAssumption DEF StoreCertificate, Ordered
    <3>3. \A h \in Hosts : json[h] \in Ids => h # host[t]
      BY <1>5, EnrollmentAssumption DEF StoreCertificate, Ordered
    <3>4. Ordered'
      BY <1>5, <2>2, <2>5, <3>2, <3>3 DEF StoreCertificate, Goto, Ordered, Begun, TypeOK, handling
    <3>5. QED
      BY <2>1, <2>4, <3>1, <3>4
  <2>6. CASE Goto(t, "failed") /\ crt' = [crt EXCEPT ![host[t]] = Broken]
    <3>1. Answered'
      BY <1>5, <2>2, <2>3, <2>6, EnrollmentAssumption
         DEF StoreCertificate, Goto, Answered, TypeOK, handling
    <3>2. \A u \in Tries : agent[u] = "configuring" => host[u] # host[t]
      BY <1>5, EnrollmentAssumption DEF StoreCertificate, Ordered
    <3>3. \A h \in Hosts : json[h] \in Ids => h # host[t]
      BY <1>5, EnrollmentAssumption DEF StoreCertificate, Ordered
    <3>4. Ordered'
      BY <1>5, <2>2, <2>6, <3>2, <3>3 DEF StoreCertificate, Goto, Ordered, Begun, TypeOK, handling
    <3>5. QED
      BY <2>1, <2>4, <3>1, <3>4
  <2>7. QED
    BY <1>5, <2>5, <2>6 DEF StoreCertificate
<1>6. CASE StoreConfig(t)
  <2>1. host[t] \in Hosts /\ crt[host[t]] = t /\ found[t] \in Ids
    BY <1>6 DEF StoreConfig, Begun, Ordered, Answered, Registered
  <2>2. TypeOK'
    BY <1>6, <2>1 DEF StoreConfig, Goto, TypeOK, table, handling
  <2>3. \A u \in Tries : Registered(u) => Registered(u)'
    BY <1>6 DEF StoreConfig, Registered, table, handling
  <2>4. Selected' /\ Begun'
    BY <1>6 DEF StoreConfig, Goto, Selected, Begun, Claimable, TypeOK, table, handling
  <2>5. Answered'
    BY <1>6, <2>3 DEF StoreConfig, Goto, Answered, TypeOK, handling
  <2>6. Ordered'
    BY <1>6, <2>1, EnrollmentAssumption DEF StoreConfig, Goto, Ordered, TypeOK, handling
  <2>7. QED
    BY <2>2, <2>4, <2>5, <2>6
<1>7. QED
  BY <1>1, <1>3, <1>4, <1>5, <1>6 DEF Enroll

-----------------------------------------------------------------------------
LEMMA InvUnchanged == Inv /\ UNCHANGED vars => Inv'
BY DEF Inv, TypeOK, Selected, Begun, Answered, Ordered, Registered, Claimable, vars, table, runs,
       handling, files

\* Locks, transactions, answers and files hang together (enrollment.go, main.go).
LEMMA InvAlways == Spec => []Inv
<1>1. Inv /\ [Next]_vars => Inv'
  BY OperateInv, ClaimInv, EnrollInv, InvUnchanged DEF Next
<1>2. QED
  BY <1>1, InvAtFirst, PTL DEF Spec

\* The table, the handlers and the files keep their types, and a row is claimed exactly when
\* it has a certificate, as the schema demands (schema.sql).
THEOREM EnrollmentTypeCorrect == Spec => []TypeOK
<1>1. Inv => TypeOK
  BY DEF Inv
<1>2. QED
  BY <1>1, InvAlways, PTL

\* For any number of hosts and devices, a configured host is the device that the manager
\* knows by its certificate (enrollment.go Claim; main.go enroll).
THEOREM EnrolledAlwaysRegistered == Spec => []EnrolledIsRegistered
<1>1. Inv => EnrolledIsRegistered
  BY DEF Inv, Answered, Ordered, Registered, EnrolledIsRegistered
<1>2. QED
  BY <1>1, InvAlways, PTL

\* However claims, renewals and revocations interleave, only the current code of a device
\* enrolls it (enrollment.go Claim, Regenerate, Revoke).
THEOREM OnlyCurrentCodeAlways == Spec => OnlyCurrentCode
<1> DEFINE Current == \A id \in Ids :
              row'[id].cert # row[id].cert /\ row'[id].cert # None =>
                  row[id].code = code[row'[id].cert] /\ ~row[id].revoked
<1>1. Inv /\ [Next]_vars => Current
  <2> SUFFICES ASSUME Inv, [Next]_vars PROVE Current
    OBVIOUS
  <2>1. ASSUME NEW id \in Ids, Operate(id) PROVE Current
    <3>1. \A d \in Ids : d # id => row'[d] = row[d]
      BY <2>1 DEF Inv, Operate, Create, Regenerate, Revoke, DeleteRevoked, Expire, TypeOK
    <3>2. row[id] \in Row
      BY DEF Inv, TypeOK
    <3>3. CASE DeleteRevoked(id)
      <4>1. row'[id].cert = None
        BY <3>3, <3>2 DEF DeleteRevoked, NoRow, Inv, TypeOK
      <4>2. QED
        BY <3>1, <4>1
    <3>4. CASE ~DeleteRevoked(id)
      <4>1. ASSUME NEW c \in Codes, Create(id, c) PROVE row'[id].cert = row[id].cert
        <5>1. row'[id] = [row[id] EXCEPT !.state = "pending", !.code = c, !.timely = TRUE]
          BY <4>1 DEF Create, Inv, TypeOK
        <5>2. QED
          BY <3>2, <5>1 DEF Row
      <4>2. ASSUME NEW c \in Codes, Regenerate(id, c) PROVE row'[id].cert = row[id].cert
        <5>1. row'[id] = [row[id] EXCEPT !.code = c, !.timely = TRUE]
          BY <4>2 DEF Regenerate, Inv, TypeOK
        <5>2. QED
          BY <3>2, <5>1 DEF Row
      <4>3. CASE Revoke(id)
        <5>1. row'[id] = [row[id] EXCEPT !.revoked = TRUE, !.code = None]
          BY <4>3 DEF Revoke, Inv, TypeOK
        <5>2. QED
          BY <3>1, <3>2, <5>1 DEF Row
      <4>4. CASE Expire(id)
        <5>1. row'[id] = [row[id] EXCEPT !.timely = FALSE]
          BY <4>4 DEF Expire, Inv, TypeOK
        <5>2. QED
          BY <3>1, <3>2, <5>1 DEF Row
      <4>5. QED
        BY <2>1, <3>1, <3>4, <4>1, <4>2, <4>3, <4>4 DEF Operate
    <3>5. QED
      BY <3>3, <3>4
  <2>2. ASSUME NEW t \in Tries, Commit(t) PROVE Current
    BY <2>2, RowType DEF Inv, Commit, Selected, Claimable, TypeOK, Row
  <2>3. CASE UNCHANGED row
    BY <2>3
  <2>4. ASSUME NEW t \in Tries, Claim(t) PROVE Current
    BY <2>2, <2>3, <2>4 DEF Claim, Select, Update, RollBack, table
  <2>5. ASSUME NEW t \in Tries, Enroll(t) PROVE Current
    BY <2>3, <2>5 DEF Enroll, Start, Receive, StoreCertificate, StoreConfig, Fail, table
  <2>6. CASE UNCHANGED vars
    BY <2>3, <2>6 DEF vars, table
  <2>7. QED
    BY <2>1, <2>4, <2>5, <2>6 DEF Next
<1>2. QED
  BY <1>1, InvAlways, PTL DEF Spec, OnlyCurrentCode
=============================================================================
