--------------------------- MODULE SessionProgress ---------------------------
(***************************************************************************)
(* What a reader of a session's rows may rely on, whatever workers,        *)
(* crashes and requests do underneath: a product is stored only when the   *)
(* products it is made from are stored, none is ever taken back, and a     *)
(* session is called completed only while everything its chain promises is *)
(* there.  An outcome, on the other hand, is not final: a step that is     *)
(* executed again may reopen, complete or fail the session.                *)
(***************************************************************************)
EXTENDS Integers, Sequences

VARIABLE progress   \* the sessions, in the order in which they were started

Kinds    == {"discovery", "analysis", "ideation"}
Outcomes == {"open", "completed", "failed"}

\* What each product is made from.
MadeFrom ==
    [cards |-> {}, report |-> {"cards"},
     document |-> {}, chunks |-> {"document"},
     coverage |-> {"document"}, packet |-> {"chunks", "coverage"},
     review |-> {"packet"}, evidence |-> {"review"},
     candidates |-> {}, critique |-> {"candidates"}, ranks |-> {"critique"},
     spec |-> {"ranks"}]

\* What a completed session holds; a paper without evidence is a
\* legal result.
Promised ==
    [discovery |-> {"cards", "report"},
     analysis  |-> {"document", "chunks", "coverage", "packet", "review"},
     ideation  |-> {"candidates", "critique", "ranks"}]

Sound(s) ==
    /\ \A p \in s.products : MadeFrom[p] \subseteq s.products
    /\ s.outcome = "completed" => Promised[s.kind] \subseteq s.products

\* Sessions may have been started, and worked on, before.
Init == \A i \in 1..Len(progress) : Sound(progress[i])

Start ==
    \E k \in Kinds : progress' =
        Append(progress, [kind |-> k, products |-> {}, outcome |-> "open"])

\* One session's products grow, or its outcome changes, or both.
Work(i) ==
    /\ progress' = [progress EXCEPT ![i].products = progress'[i].products,
                                   ![i].outcome = progress'[i].outcome]
    /\ progress[i].products \subseteq progress'[i].products
    /\ progress'[i].outcome \in Outcomes
    /\ Sound(progress'[i])

Next == Start \/ \E i \in 1..Len(progress) : Work(i)

Spec == Init /\ [][Next]_progress
=============================================================================
