----------------------------- MODULE CasRegister -----------------------------
(***************************************************************************)
(* What a saved account promises to those who write it: one register per   *)
(* user whose versions are numbered without a gap, and which a save        *)
(* replaces in ONE step, and only if it was based on the version in it.    *)
(* A save that is refused changes nothing; one that fails may or may not   *)
(* have taken effect, and its writer is not told which.                    *)
(***************************************************************************)
EXTENDS Naturals, Sequences

CONSTANTS Users, Workers, NoUser

VARIABLES log,   \* log[u]: all that was ever stored for u, in order
          op     \* op[w]: the save that request w carries, and how it ended

Idle == [phase |-> "idle"]
Pending(u, d, v) == [phase |-> "pending", user |-> u, data |-> d, version |-> v]
Saved(u, d, v) == [phase |-> "saved", user |-> u, data |-> d, version |-> v]
Failed == [phase |-> "failed"]

RegisterInit ==
    /\ log = [u \in Users |-> << >>]
    /\ op = [w \in Workers |-> Idle]

\* A request arrives; NoUser when nobody is signed in.
Submit(w) ==
    /\ op[w] = Idle
    /\ op'[w].phase = "pending"
    /\ op' = [op EXCEPT ![w] = Pending(op'[w].user, op'[w].data, op'[w].version)]
    /\ UNCHANGED log

\* The save takes effect, whether or not its writer will hear of it.
Commit(w) ==
    LET u == op[w].user
        d == op[w].data
        v == op[w].version
    IN  /\ op[w].phase = "pending" /\ u \in Users
        /\ v = Len(log[u])
        /\ log' = [log EXCEPT ![u] = Append(@, d)]
        /\ op' \in {[op EXCEPT ![w] = Saved(u, d, v + 1)], [op EXCEPT ![w] = Failed]}

Refuse(w) ==
    /\ op[w].phase = "pending"
    /\ op' = [op EXCEPT ![w] = Failed]
    /\ UNCHANGED log

Answer(w) ==
    /\ op[w].phase \in {"saved", "failed"}
    /\ op' = [op EXCEPT ![w] = Idle]
    /\ UNCHANGED log

RegisterNext == \E w \in Workers : Submit(w) \/ Commit(w) \/ Refuse(w) \/ Answer(w)

RegisterSpec == RegisterInit /\ [][RegisterNext]_<<log, op>>
=============================================================================
