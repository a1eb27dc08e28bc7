-------------------------- MODULE PublishedResult --------------------------
(***************************************************************************)
(* What the invocation fence promises about external results: attempts     *)
(* pass through increasing generations, and an attempt publishes at most   *)
(* one result, from its newest generation, which no other attempt has      *)
(* published.                                                              *)
(***************************************************************************)
EXTENDS Naturals

CONSTANTS Attempts, MaxGenerations, Digests, NoDigest

VARIABLES
    newest,     \* the newest generation begun for each attempt
    published   \* the result each attempt has published

abstractVars == <<newest, published>>

Init ==
    /\ newest = [a \in Attempts |-> 0]
    /\ published = [a \in Attempts |-> NoDigest]

\* A generation is begun; claims that never begin may have used up numbers.
Begin(a) ==
    /\ published[a] = NoDigest
    /\ \E g \in (newest[a] + 1)..MaxGenerations : newest' = [newest EXCEPT ![a] = g]
    /\ UNCHANGED published

Publish(a, d) ==
    /\ newest[a] > 0
    /\ published[a] = NoDigest
    /\ \A b \in Attempts : published[b] # d
    /\ published' = [published EXCEPT ![a] = d]
    /\ UNCHANGED newest

Next == \E a \in Attempts : Begin(a) \/ \E d \in Digests : Publish(a, d)

Spec == Init /\ [][Next]_abstractVars

=============================================================================
