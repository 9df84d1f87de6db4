------------------------------ MODULE ReviewGate ------------------------------
(***************************************************************************)
(* What the change workflow promises, without handlers, databases or       *)
(* retries: a site whose pages others edit at will, and on which a change  *)
(* is published only as reviewed and only once a reviewer has approved it. *)
(***************************************************************************)
CONSTANTS Proposals, Pages, Slugs, Targets, Bodies, None

VARIABLES page, reviewed, approved, published

vars == <<page, reviewed, approved, published>>

Content == [body : Bodies, links : SUBSET Targets]

Change == [slug : Slugs, target : Targets, page : Pages \cup {None},
           hash : Content \cup {None}, auto : BOOLEAN]

\* The page a reviewer has agreed to.
Reviewed(c) == [body |-> c.hash.body, links |-> c.hash.links \cup {c.target}]

Init ==
    /\ page \in [Pages -> [raw : Content, slug : Slugs]]
    /\ reviewed = [p \in Proposals |-> None]
    /\ approved = {}
    /\ published = [p \in Proposals |-> {}]

\* A change is proposed once, and what it proposes never varies.
Propose(p, c) ==
    /\ reviewed[p] = None
    /\ reviewed' = [reviewed EXCEPT ![p] = c]
    /\ UNCHANGED <<page, approved, published>>

Approve(p) ==
    /\ reviewed[p] # None
    /\ approved' = approved \cup {p}
    /\ UNCHANGED <<page, reviewed, published>>

Publish(p) ==
    /\ p \in approved
    /\ reviewed[p].auto
    /\ page' = [page EXCEPT ![reviewed[p].page].raw = Reviewed(reviewed[p])]
    /\ published' = [published EXCEPT ![p] = {Reviewed(reviewed[p])}]
    /\ UNCHANGED <<reviewed, approved>>

EditedByOthers(g) ==
    /\ \E o \in [raw : Content, slug : Slugs] : page' = [page EXCEPT ![g] = o]
    /\ UNCHANGED <<reviewed, approved, published>>

Next ==
    \/ \E p \in Proposals : \/ \E c \in Change : Propose(p, c)
                            \/ Approve(p)
                            \/ Publish(p)
    \/ \E g \in Pages : EditedByOthers(g)

Spec == Init /\ [][Next]_vars
===============================================================================
