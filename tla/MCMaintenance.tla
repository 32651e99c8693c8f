--------------------------- MODULE MCMaintenance ---------------------------
(* Instances of Maintenance for TLC: what writers store in each run.       *)
EXTENDS Maintenance

\* A remark that reads the same when it is written again
Noted(from, to) ==
    [class |-> "semantic", content |-> "note", fact |-> NoFact, object |-> NoFact,
     from |-> from, to |-> to, consent |-> {}, evidence |-> {}, signs |-> {},
     again |-> [content |-> "note", signs |-> {}]]

Says(content, o) == [o EXCEPT !.content = content, !.again = [@ EXCEPT !.content = content]]

Owned(content, object, from, to) ==
    Says(content, [Noted(from, to) EXCEPT !.fact = "owner", !.object = object])

\* One note made twice with a gap between and once over it; the owner said in
\* two ways, and another owner
Facts == {Noted(0, 1), Noted(0, 3), Noted(2, 3), Owned("ann owns it", "ann", 0, 2),
          Owned("owner: ann", "ann", 1, 3), Owned("bob owns it", "bob", 1, 3)}

\* A remark admission holds, whenever it is written
Odd == Says("odd", [Noted(0, 3) EXCEPT !.signs = {"hold"}, !.again.signs = {"hold"}])

\* A number that was declared, and is not when it is written again; one that was
\* not declared, held and masked
Declared == [Noted(0, 3) EXCEPT !.content = "call 9 digits (declared)",
                !.again = [content |-> "call 9 digits", signs |-> Signs]]
Masked   == [Noted(0, 2) EXCEPT !.content = "call 9 digits", !.signs = Signs,
                !.again = [content |-> "call masked", signs |-> {}]]

Held == {Odd, Declared, Masked}

\* A preference said in three ways, as consent was given: from the first instant
\* on, later, and on the word of a caller
Preferred(content, from, to, evidence) ==
    Says(content, [Noted(from, to) EXCEPT !.class = "preference", !.fact = "drinks",
                      !.object = "tea", !.consent = from..to, !.evidence = {evidence}])

Wishes == {Preferred("tea, please", 0, 2, "explicit"), Preferred("likes tea", 1, 3, "explicit"),
           Preferred("they like tea", 1, 3, "claimed")}

Everything == {[says |-> Facts, most |-> 3], [says |-> Held, most |-> 2],
               [says |-> Wishes, most |-> 2]}
OnlyHeld   == {[says |-> {Odd}, most |-> 2]}
=============================================================================
