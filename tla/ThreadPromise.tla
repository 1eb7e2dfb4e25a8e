---------------------------- MODULE ThreadPromise ----------------------------
(***************************************************************************)
(* What the agent promises the clients of a conversation thread, without   *)
(* nodes, channels or a cache. A thread serves one call at a time and one  *)
(* question after the other. A question may spend a bounded number of SQL  *)
(* generations. A call may carry a licence to run one statement that needs *)
(* an approval: it is given for the thread's current question when a       *)
(* waiting thread is taken up again, and is gone as soon as it is used, a  *)
(* new statement is generated, or the call ends.                           *)
(*                                                                         *)
(* SqlAgentPromise shows that SqlAgent keeps this promise while clients    *)
(* wait for each reply.                                                    *)
(***************************************************************************)
EXTENDS Naturals, Sequences

CONSTANTS Thread, Call, Item, Budget, None

VARIABLES
    stage,      \* stage[t]: "empty", "open" (a question is under way) or "settled"
    worker,     \* worker[t]: the call at work on t
    question,   \* question[t]: the question t serves
    spent,      \* spent[t]: SQL generations spent on it
    licence,    \* licence[t]: what t's worker may still run
    executed    \* executed[c]: what call c ran under a licence

vars == <<stage, worker, question, spent, licence, executed>>

Init ==
    /\ stage = [t \in Thread |-> "empty"]
    /\ worker = [t \in Thread |-> None]
    /\ question = [t \in Thread |-> None]
    /\ spent = [t \in Thread |-> 0]
    /\ licence = [t \in Thread |-> None]
    /\ executed = [c \in Call |-> <<>>]

\* A new question takes the thread over, whatever it was waiting for.
Ask(t, c) ==
    /\ worker[t] = None
    /\ worker' = [worker EXCEPT ![t] = c]
    /\ stage' = [stage EXCEPT ![t] = "open"]
    /\ question' = [question EXCEPT ![t] = c]
    /\ spent' = [spent EXCEPT ![t] = 0]
    /\ UNCHANGED <<licence, executed>>

\* A decision takes up a question that paused or crashed.
Continue(t, c) ==
    /\ worker[t] = None
    /\ stage[t] = "open"
    /\ worker' = [worker EXCEPT ![t] = c]
    /\ \E p \in {q \in Item : q.question = question[t]} \cup {None} :
         licence' = [licence EXCEPT ![t] = p]
    /\ UNCHANGED <<stage, question, spent, executed>>

Generate(t) ==
    /\ worker[t] # None
    /\ spent[t] < Budget
    /\ spent' = [spent EXCEPT ![t] = @ + 1]
    /\ licence' = [licence EXCEPT ![t] = None]
    /\ UNCHANGED <<stage, worker, question, executed>>

\* Any other step of the worker; the licence lapses unused.
Lapse(t) ==
    /\ worker[t] # None
    /\ licence' = [licence EXCEPT ![t] = None]
    /\ UNCHANGED <<stage, worker, question, spent, executed>>

RunLicensed(t) ==
    /\ worker[t] # None
    /\ licence[t] # None
    /\ executed' = [executed EXCEPT ![worker[t]] = Append(@, licence[t])]
    /\ licence' = [licence EXCEPT ![t] = None]
    /\ UNCHANGED <<stage, worker, question, spent>>

\* The call returns; the question is done with, or waits to be taken up.
Reply(t) ==
    /\ worker[t] # None
    /\ worker' = [worker EXCEPT ![t] = None]
    /\ stage' \in {stage, [stage EXCEPT ![t] = "settled"]}
    /\ licence' = [licence EXCEPT ![t] = None]
    /\ UNCHANGED <<question, spent, executed>>

Next ==
    \E t \in Thread :
      \/ \E c \in Call : Ask(t, c) \/ Continue(t, c)
      \/ Generate(t) \/ Lapse(t) \/ RunLicensed(t) \/ Reply(t)

Spec == Init /\ [][Next]_vars
=============================================================================
