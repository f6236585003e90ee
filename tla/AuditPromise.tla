---------------------------- MODULE AuditPromise ----------------------------
(***************************************************************************)
(* What an audit journal promises to whoever reads it, with no file, lock  *)
(* or process in sight: per journal, the set of facts <<operation, status>>*)
(* it holds and the set of facts the engine has told its caller it holds.  *)
(*                                                                         *)
(* Translated from the life cycle that validate_semantics enforces         *)
(* (src/src/audit.c) and from what main does behind each return value.     *)
(***************************************************************************)
CONSTANTS Journals, Operations

VARIABLES log,   \* log[j]: the facts journal j holds
          told   \* told[j]: the facts a caller was told j holds

Ending == {"reussi", "echoue", "indetermine"}
Fact == Operations \X (Ending \cup {"refuse", "en_cours"})

Known(facts, o) == \E s \in Ending \cup {"refuse", "en_cours"} : <<o, s>> \in facts
Ended(facts, o) == \E s \in Ending : <<o, s>> \in facts
Running(facts) == {o \in Operations : <<o, "en_cours">> \in facts /\ ~Ended(facts, o)}

Init ==
    /\ log = [j \in Journals |-> {}]
    /\ told = [j \in Journals |-> {}]

Add(j, fact) ==
    /\ log' = [log EXCEPT ![j] = @ \cup {fact}]
    /\ UNCHANGED told

(* A refusal stands alone; nothing else is running.                        *)
Refuse(j, o) ==
    /\ ~Known(log[j], o) /\ Running(log[j]) = {}
    /\ Add(j, <<o, "refuse">>)

(* One operation at a time, started once.                                  *)
Start(j, o) ==
    /\ ~Known(log[j], o) /\ Running(log[j]) = {}
    /\ Add(j, <<o, "en_cours">>)

(* The running operation ends once, in one of three ways.                  *)
End(j, o, s) ==
    /\ Running(log[j]) = {o}
    /\ Add(j, <<o, s>>)

(* The caller is told of a fact the journal holds.                         *)
Tell(j, fact) ==
    /\ fact \in log[j]
    /\ told' = [told EXCEPT ![j] = @ \cup {fact}]
    /\ UNCHANGED log

(* A power loss takes recent facts, none that was told, and leaves a       *)
(* history that makes sense: no end without its start, one open operation. *)
Forget ==
    /\ \A j \in Journals :
         /\ told[j] \subseteq log'[j] /\ log'[j] \subseteq log[j]
         /\ \A o \in Operations : Ended(log'[j], o) => <<o, "en_cours">> \in log'[j]
         /\ \A o, q \in Running(log'[j]) : o = q
    /\ UNCHANGED told

Next ==
    \/ \E j \in Journals, o \in Operations :
         \/ Refuse(j, o) \/ Start(j, o)
         \/ \E s \in Ending : End(j, o, s)
    \/ \E j \in Journals, fact \in Fact : Tell(j, fact)
    \/ Forget

Spec == Init /\ [][Next]_<<log, told>>
=============================================================================
