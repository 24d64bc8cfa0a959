------------------------------ MODULE Enrollment ------------------------------
(***************************************************************************)
(* How a host becomes an enrolled device: the operator issues, renews and  *)
(* revokes codes (manager/enrollment.go, manager/http.go), the installer   *)
(* runs enroll on the host with a code it was given                        *)
(* (manager/cmd/device/main.go), and the manager claims the row of the     *)
(* code in one transaction of PostgreSQL and answers with a certificate.   *)
(* Each side may stop, and each answer may be lost, between any two steps. *)
(*                                                                         *)
(* A row is locked from SELECT ... FOR UPDATE to the end of the            *)
(* transaction, and a statement that finds it locked waits.  A certificate *)
(* is the attempt it was issued to, a code and an id are drawn once.  The  *)
(* form of codes and requests, the rate limit and what goes wrong before   *)
(* the transaction all end in the same refusal.                            *)
(***************************************************************************)
CONSTANTS
    Ids,      \* devices, as rows of the table
    Codes,    \* codes that are drawn
    Hosts,    \* hosts that run enroll, one process at a time
    Tries,    \* runs of enroll, each of which sends its code once
    None,     \* no code, no id, no certificate
    Broken    \* a file that was created and not written

ASSUME EnrollmentAssumption ==
    /\ None \notin Codes \cup Tries \cup Ids \cup Hosts
    /\ Broken \notin Tries \cup Ids

VARIABLES
    row,      \* the table: state, code (its digest), whether the code is in time,
              \* revoked, and the certificate of the claim
    lock,     \* the transaction that has locked each row
    issued,   \* codes the operator was shown
    agent,    \* each run of enroll
    host,     \* the host it runs on
    code,     \* the code it was given
    handler,  \* the manager's handler of its request
    found,    \* the row that its transaction has selected
    reply,    \* runs whose certificate is on its way
    key,      \* device.key of each host
    crt,      \* device.crt: the run whose certificate it is
    json      \* device.json: the id

table == <<row, lock, issued>>
runs == <<agent, host, code>>
handling == <<handler, found, reply>>
files == <<key, crt, json>>
vars == <<table, runs, handling, files>>

Row == [state : {"absent", "pending", "claimed", "deleted"}, code : Codes \cup {None},
        timely : BOOLEAN, revoked : BOOLEAN, cert : Tries \cup {None}]
NoRow == [state |-> "absent", code |-> None, timely |-> FALSE, revoked |-> FALSE, cert |-> None]

TypeOK ==
    /\ row \in [Ids -> Row]
    /\ \A id \in Ids : row[id].state = "claimed" <=> row[id].cert # None
    /\ lock \in [Ids -> Tries \cup {None}]
    /\ issued \in SUBSET Codes
    /\ agent \in [Tries -> {"none", "posting", "certifying", "configuring", "done", "failed"}]
    /\ host \in [Tries -> Hosts \cup {None}]
    /\ code \in [Tries -> Codes \cup {None}]
    /\ handler \in [Tries -> {"none", "begun", "selected", "updated", "over"}]
    /\ found \in [Tries -> Ids \cup {None}]
    /\ reply \in SUBSET Tries
    /\ key \in [Hosts -> {"absent", "broken", "whole"}]
    /\ crt \in [Hosts -> Tries \cup {None, Broken}]
    /\ json \in [Hosts -> Ids \cup {None, Broken}]

Init ==
    /\ row = [id \in Ids |-> NoRow]
    /\ lock = [id \in Ids |-> None]
    /\ issued = {}
    /\ agent = [t \in Tries |-> "none"]
    /\ host = [t \in Tries |-> None]
    /\ code = [t \in Tries |-> None]
    /\ handler = [t \in Tries |-> "none"]
    /\ found = [t \in Tries |-> None]
    /\ reply = {}
    /\ key = [h \in Hosts |-> "absent"]
    /\ crt = [h \in Hosts |-> None]
    /\ json = [h \in Hosts |-> None]

-----------------------------------------------------------------------------
(* The operator *)

Claimable(id) == row[id].state = "pending" /\ ~row[id].revoked

\* Store.Create: a row of its own, with a code for 24 hours.
Create(id, c) ==
    /\ row[id].state = "absent" /\ c \notin issued
    /\ row' = [row EXCEPT ![id] = [@ EXCEPT !.state = "pending", !.code = c, !.timely = TRUE]]
    /\ issued' = issued \cup {c}
    /\ UNCHANGED <<lock, runs, handling, files>>

\* Store.Regenerate: the new digest takes the place of the old one.
Regenerate(id, c) ==
    /\ lock[id] = None /\ Claimable(id) /\ c \notin issued
    /\ row' = [row EXCEPT ![id] = [@ EXCEPT !.code = c, !.timely = TRUE]]
    /\ issued' = issued \cup {c}
    /\ UNCHANGED <<lock, runs, handling, files>>

\* Store.Revoke, of a device that is enrolled or not yet.
Revoke(id) ==
    /\ lock[id] = None /\ row[id].state \in {"pending", "claimed"}
    /\ row' = [row EXCEPT ![id] = [@ EXCEPT !.revoked = TRUE, !.code = None]]
    /\ UNCHANGED <<lock, issued, runs, handling, files>>

\* Store.DeleteRevoked.
DeleteRevoked(id) ==
    /\ lock[id] = None /\ row[id].revoked
    /\ row' = [row EXCEPT ![id] = [NoRow EXCEPT !.state = "deleted"]]
    /\ UNCHANGED <<lock, issued, runs, handling, files>>

\* 24 hours have passed, whoever has locked the row.
Expire(id) ==
    /\ row[id].timely
    /\ row' = [row EXCEPT ![id] = [@ EXCEPT !.timely = FALSE]]
    /\ UNCHANGED <<lock, issued, runs, handling, files>>

-----------------------------------------------------------------------------
(* The manager's handler of an enrollment *)

\* The transaction of t ends, and nobody waits for it any more.
Over(t) ==
    /\ handler' = [handler EXCEPT ![t] = "over"]
    /\ lock' = [id \in Ids |-> IF lock[id] = t THEN None ELSE lock[id]]

\* The code as the SELECT finds it: not claimed, not revoked, in time.
Matches(id, t) == row[id].code = code[t] /\ Claimable(id) /\ row[id].timely

\* Mutation of Select: without FOR UPDATE.
SelectUnlocked(t, id) ==
    /\ handler[t] = "begun" /\ Matches(id, t)
    /\ handler' = [handler EXCEPT ![t] = "selected"]
    /\ found' = [found EXCEPT ![t] = id]
    /\ UNCHANGED <<table, runs, reply, files>>

\* Store.Claim: SELECT ... FOR UPDATE finds the row of the code.
Select(t, id) ==
    /\ handler[t] = "begun" /\ Matches(id, t) /\ lock[id] = None
    /\ handler' = [handler EXCEPT ![t] = "selected"]
    /\ found' = [found EXCEPT ![t] = id]
    /\ lock' = [lock EXCEPT ![id] = t]
    /\ UNCHANGED <<row, issued, runs, reply, files>>

\* Mutation of Update: the certificate is sent before the claim is committed.
UpdateAnswering(t) ==
    /\ handler[t] = "selected" /\ Claimable(found[t]) /\ row[found[t]].timely
    /\ handler' = [handler EXCEPT ![t] = "updated"]
    /\ reply' = reply \cup {t}
    /\ UNCHANGED <<table, runs, found, files>>

\* The certificate is signed, and the UPDATE finds the row as the SELECT did.
Update(t) ==
    /\ handler[t] = "selected" /\ Claimable(found[t]) /\ row[found[t]].timely
    /\ handler' = [handler EXCEPT ![t] = "updated"]
    /\ UNCHANGED <<table, runs, found, reply, files>>

\* The claim is committed.  Whether the manager knows, and can say so, is another matter.
Commit(t) ==
    /\ handler[t] = "updated"
    /\ Over(t)
    /\ row' = [row EXCEPT ![found[t]] =
                   [@ EXCEPT !.state = "claimed", !.code = None, !.cert = t]]
    /\ reply' \in {reply, reply \cup {t}}
    /\ UNCHANGED <<issued, runs, found, files>>

\* The claim is refused, or the transaction fails at any point: the manager stops, the
\* database does, or the host does not wait any longer.
RollBack(t) ==
    /\ handler[t] \in {"begun", "selected", "updated"}
    /\ Over(t)
    /\ UNCHANGED <<row, issued, runs, found, reply, files>>

-----------------------------------------------------------------------------
(* The host *)

Running(t) == agent[t] \in {"posting", "certifying", "configuring"}
Goto(t, a) == agent' = [agent EXCEPT ![t] = a]

\* enroll on host h with code c: not when there is a device.json, nor with a key that cannot
\* be read; a missing key is made first, and kept whatever happens to the claim.
Start(t, h, c) ==
    /\ agent[t] = "none" /\ c \in issued
    /\ json[h] = None /\ key[h] # "broken"
    /\ \A u \in Tries : Running(u) => host[u] # h
    /\ host' = [host EXCEPT ![t] = h]
    /\ code' = [code EXCEPT ![t] = c]
    /\ \/ /\ Goto(t, "posting")
          /\ key' = [key EXCEPT ![h] = "whole"]
          /\ handler' = [handler EXCEPT ![t] = "begun"]
       \/ /\ Goto(t, "failed")
          /\ key' = [key EXCEPT ![h] = IF @ = "absent" THEN "broken" ELSE @]
          /\ UNCHANGED handler
    /\ UNCHANGED <<table, found, reply, crt, json>>

\* The answer arrives.
Receive(t) ==
    /\ agent[t] = "posting" /\ t \in reply
    /\ Goto(t, "certifying")
    /\ reply' = reply \ {t}
    /\ UNCHANGED <<table, host, code, handler, found, files>>

\* device.crt is written, unless there is one.
StoreCertificate(t) ==
    /\ agent[t] = "certifying" /\ crt[host[t]] = None
    /\ \/ Goto(t, "configuring") /\ crt' = [crt EXCEPT ![host[t]] = t]
       \/ Goto(t, "failed") /\ crt' = [crt EXCEPT ![host[t]] = Broken]
    /\ UNCHANGED <<table, host, code, handling, key, json>>

\* And device.json after it.
StoreConfig(t) ==
    /\ agent[t] = "configuring" /\ json[host[t]] = None
    /\ \/ Goto(t, "done") /\ json' = [json EXCEPT ![host[t]] = found[t]]
       \/ Goto(t, "failed") /\ json' = [json EXCEPT ![host[t]] = Broken]
    /\ UNCHANGED <<table, host, code, handling, key, crt>>

\* enroll fails or stops: no answer in 20 seconds, a refusal, an existing file, a crash.
Fail(t) ==
    /\ Running(t)
    /\ Goto(t, "failed")
    /\ UNCHANGED <<table, host, code, handling, files>>

-----------------------------------------------------------------------------
Operate(id) ==
    \/ \E c \in Codes : Create(id, c) \/ Regenerate(id, c)
    \/ Revoke(id) \/ DeleteRevoked(id) \/ Expire(id)

Claim(t) == (\E id \in Ids : Select(t, id)) \/ Update(t) \/ Commit(t) \/ RollBack(t)

Enroll(t) ==
    \/ \E h \in Hosts, c \in Codes : Start(t, h, c)
    \/ Receive(t) \/ StoreCertificate(t) \/ StoreConfig(t) \/ Fail(t)

Next ==
    \/ \E id \in Ids : Operate(id)
    \/ \E t \in Tries : Claim(t) \/ Enroll(t)

Spec == Init /\ [][Next]_vars

-----------------------------------------------------------------------------
(* Safety *)

\* A device is enrolled only with the code that is its code at that moment, unless it is
\* revoked: a code that was used, renewed or revoked is dead even for a claim that has
\* already found its row (enrollment.go Claim against Regenerate and Revoke).
OnlyCurrentCode ==
    [][\A id \in Ids : row'[id].cert # row[id].cert /\ row'[id].cert # None =>
          row[id].code = code[row'[id].cert] /\ ~row[id].revoked]_vars

\* A host that is configured has the certificate of the device it is configured as, and it is
\* the one in the row until the operator deletes it: no other host can have won the same
\* device, and no crash makes it a device that the manager does not know (enrollment.go
\* Claim; main.go enroll).
EnrolledIsRegistered ==
    \A h \in Hosts : json[h] \in Ids =>
        /\ crt[h] \in Tries /\ host[crt[h]] = h
        /\ row[json[h]].state \in {"claimed", "deleted"}
        /\ row[json[h]].state = "claimed" => row[json[h]].cert = crt[h]
=============================================================================
