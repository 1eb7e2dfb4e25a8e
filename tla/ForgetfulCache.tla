--------------------------- MODULE ForgetfulCache ---------------------------
(***************************************************************************)
(* What the result cache promises, whichever backend is behind it: a value *)
(* an asker finds was stored under the key the asker wants, and has not    *)
(* outlived the time to live. The cache may forget whatever it likes, and  *)
(* may hold something from the start.                                      *)
(***************************************************************************)
EXTENDS Naturals

CONSTANTS Asker, Key, Value, TimeToLive, Absent

VARIABLES
    clock,
    offers,   \* what was stored: key, value and the time it expires
    wanted,   \* wanted[a]: the key asker a is interested in, Absent if none yet
    found     \* found[a]: what asker a was last given, Absent if nothing

Init ==
    /\ clock = 0
    /\ offers \subseteq [key: Key, value: Value, expires: 0..TimeToLive]
    /\ wanted = [a \in Asker |-> Absent]
    /\ found = [a \in Asker |-> Absent]

Offer ==
    /\ \E o \in offers' :
         /\ o \in [key: Key, value: Value, expires: 0..(clock + TimeToLive)]
         /\ offers' = offers \cup {o}
    /\ UNCHANGED <<clock, wanted, found>>

Want(a, k) ==
    /\ wanted[a] = Absent
    /\ wanted' = [wanted EXCEPT ![a] = k]
    /\ UNCHANGED <<clock, offers, found>>

Find(a) ==
    /\ \E o \in offers : /\ o.key = wanted[a]
                         /\ clock < o.expires
                         /\ found' = [found EXCEPT ![a] = o.value]
    /\ UNCHANGED <<clock, offers, wanted>>

Pass == clock' > clock /\ UNCHANGED <<offers, wanted, found>>

Next ==
    \/ Offer
    \/ Pass
    \/ \E a \in Asker : Find(a) \/ \E k \in Key : Want(a, k)

Spec == Init /\ [][Next]_<<clock, offers, wanted, found>>

=============================================================================
