--------------------------- MODULE MCConversation ---------------------------
(* Instance of Conversation for TLC. *)
EXTENDS Conversation, TLC

\* A question only the judge may stop, and the same about personal data. One
\* that matches no pattern goes the way of the first after a verdict of null.
MCAsked == {{"weak"}, {"weak", "pii"}}

\* Plain objects, one in a fence, one in prose, a list, and prose without any.
MCSaid == {[whole |-> "yes", fence |-> "absent", braces |-> "yes"],
           [whole |-> "bad", fence |-> "no", braces |-> "no"],
           [whole |-> "bad", fence |-> "bad", braces |-> "no"],
           [whole |-> "truthy", fence |-> "absent", braces |-> "yes"],
           [whole |-> "bad", fence |-> "absent", braces |-> "absent"]}

MCSymmetry == Permutations(Call) \cup Permutations(Thread)

=============================================================================
