-------------------------------- MODULE Blame --------------------------------
(***************************************************************************)
(* Why an assertion that fails has found a fault of the server: what a     *)
(* script may take for granted before each of its steps, worked out from   *)
(* the steps alone, and with it the codes with which a conformant server   *)
(* may answer there.  None of them makes the assertion fail.               *)
(*                                                                         *)
(* k is what is known before a step: the entries that may be in the        *)
(* directory and those that surely are, those that may be altered and      *)
(* those that surely are, whom the shared connection may be bound as, and  *)
(* whether the assertion has bound it or used it as it was.                *)
(***************************************************************************)
EXTENDS Discipline

-----------------------------------------------------------------------------
\* What assertions may leave behind, whatever the server does.

Sent(s) == {s[i].req : i \in DOMAIN s}
Undone(s) == UNION {Sent(s[i].undo) : i \in DOMAIN s}
AllSent == UNION {Sent(Table[i].script) \cup Undone(Table[i].script) : i \in DOMAIN Table}
Litter == UNION {Entries(r) : r \in AllSent}
Scribbles == Seed \cap UNION {r.on : r \in {x \in AllSent : x.kind \in {"modify", "setpw"}}}

-----------------------------------------------------------------------------
\* What a server may answer.

OnSeed == [may |-> Seed, sure |-> Seed, altered |-> {}, changed |-> {},
           who |-> Identities, bound |-> FALSE, unbound |-> FALSE]
OnLitter == [OnSeed EXCEPT !.may = Seed \cup Litter, !.altered = Scribbles]

Whos(k, r) == IF r.as = "shared" THEN k.who ELSE {r.as}
Binds(r) == r.kind = "bind" /\ r.as = "shared"
\* It is, or has been, at the mercy of a server that refuses anonymous reads.
Unbound(k, r) ==
  k.unbound \/ (r.kind # "bind" /\ (r.as = "anonymous" \/ (r.as = "shared" /\ ~k.bound)))

\* The objections there may be, and whether there is one: compare Objections.
MayObject(k, r) ==
  {c \in {32, 49, 50, 66, 68} :
     \/ c = 50 /\ r.kind \in Writes /\ ~(Whos(k, r) \subseteq {"admin"})
     \/ c = 50 /\ r.kind = "read" /\ "anonymous" \in Whos(k, r) /\ ~Unbound(k, r)
     \/ c = 32 /\ r.kind \in (Writes \ {"add"}) \cup {"read"} /\ ~(r.on \subseteq k.sure)
     \/ c = 32 /\ r.kind = "add" /\ \E e \in r.on : Above(e) \notin k.sure
     \/ c = 66 /\ r.kind = "delete" /\ \E f \in k.may : Above(f) \in r.on
     \/ c = 68 /\ r.kind = "add" /\ r.on \cap k.may # {}
     \/ c = 68 /\ r.kind = "rename" /\ r.to \in k.may
     \/ c = 49 /\ r.kind = "bind" /\ r.to = "bob-new" /\ "bob" \notin k.changed
     \/ c = 49 /\ r.kind = "bind" /\ r.to # "bob-new" /\ r.to \in k.altered}
MustObject(k, r) ==
  \/ r.kind \in (Writes \ {"add"}) \cup {"read"} /\ ~(r.on \subseteq k.may)
  \/ r.kind = "add" /\ \E e \in r.on : Above(e) \notin k.may
  \/ r.kind = "delete" /\ \E f \in k.sure : Above(f) \in r.on
  \/ r.kind = "add" /\ r.on \cap k.sure # {}
  \/ r.kind = "rename" /\ r.to \in k.sure
  \/ r.kind = "bind" /\ r.to = "bob-new" /\ "bob" \notin k.altered
  \/ r.kind = "bind" /\ r.to # "bob-new" /\ r.to \in k.changed

Expected(k, r) ==
  MayObject(k, r) \cup
  (IF MustObject(k, r) THEN {}
   ELSE r.codes \cup (IF r.kind = "read" /\ r.on \cap k.altered # {} THEN {16} ELSE {}))

-----------------------------------------------------------------------------
\* What is known when the function goes on: the request may have had its effect,
\* must have had it, or there was nothing for it to remove.

GoesOn(st, c) == st.ret[c] = "go" \/ ~st.stop
Passing(k, st) == {c \in Expected(k, st.req) : GoesOn(st, c)}
Can(k, st) == 0 \in Passing(k, st)
Must(k, st) == Passing(k, st) \subseteq {0}
Gone(k, st) ==
  /\ Passing(k, st) \subseteq {0, 32} /\ st.req.codes = {0}
  /\ \A d, e \in st.req.on : d = e
When(b, S) == IF b THEN S ELSE {}

MayAfter(k, st) ==
  LET r == st.req
      left == k.may \ When(Must(k, st) \/ Gone(k, st), r.on)
  IN  CASE r.kind = "add" -> k.may \cup When(Can(k, st), r.on)
        [] r.kind = "delete" -> left
        [] r.kind = "rename" -> left \cup When(Can(k, st), {r.to})
        [] OTHER -> k.may
SureAfter(k, st) ==
  LET r == st.req
      left == k.sure \ When(Can(k, st), r.on)
  IN  CASE r.kind = "add" -> k.sure \cup When(Must(k, st), r.on)
        [] r.kind = "delete" -> left
        [] r.kind = "rename" -> left \cup When(Must(k, st), {r.to})
        [] OTHER -> k.sure
AlteredAfter(k, st) ==
  LET r == st.req
  IN  CASE r.kind \in {"modify", "setpw"} -> k.altered \cup When(Can(k, st), r.on \cap Seed)
        [] r.kind = "resetpw" -> k.altered \ When(Must(k, st), r.on)
        [] OTHER -> k.altered
ChangedAfter(k, st) ==
  LET r == st.req
  IN  CASE r.kind \in {"modify", "setpw"} -> k.changed \cup When(Must(k, st), r.on \cap Seed)
        [] r.kind = "resetpw" -> k.changed \ When(Can(k, st), r.on)
        [] OTHER -> k.changed
WhoAfter(k, st) ==
  CASE Binds(st.req) ->
         When(Can(k, st), {Named(st.req.to)}) \cup When(~Must(k, st), {"anonymous"})
    [] st.req.kind = "unbind" /\ st.req.as = "shared" -> {"anonymous"}
    [] OTHER -> k.who

After(k, st) ==
  IF st.kind = "try" THEN k
  ELSE [may |-> MayAfter(k, st), sure |-> SureAfter(k, st),
        altered |-> AlteredAfter(k, st), changed |-> ChangedAfter(k, st),
        who |-> WhoAfter(k, st),
        bound |-> k.bound \/ Binds(st.req), unbound |-> Unbound(k, st.req)]

\* What is known after n steps of s.
Known(s, start) ==
  LET known[n \in 0..Len(s)] == IF n = 0 THEN start ELSE After(known[n - 1], s[n])
  IN  known

-----------------------------------------------------------------------------
\* The condition on scripts.

NeverFails(st) == \A c \in Codes : st.ret[c] # "fail"
BlamelessAt(a, n, k) ==
  \/ a.script[n].kind = "try"
  \/ \A c \in Expected(k, a.script[n].req) : a.script[n].ret[c] # "fail"
  \/ a.id = "4511.4.8.4" /\ Unbound(k, a.script[n].req)
Blameless(a, start) ==
  \A n \in DOMAIN a.script :
    /\ BlamelessAt(a, n, Known(a.script, start)[n - 1])
    /\ \A i \in DOMAIN a.script[n].undo : NeverFails(a.script[n].undo[i])

\* No code that a conformant server may answer with makes an assertion of the
\* registry fail: none that starts on the seed, and none that wipes first whatever
\* others have left.  And no assertion deletes or renames an entry of the seed.
ASSUME BlamelessAssumption ==
  /\ \A r \in AllSent : r.kind \in {"delete", "rename"} => r.on \cap Seed = {}
  /\ \A i \in DOMAIN Table :
       /\ Blameless(Table[i], OnSeed)
       /\ WipesFirst(Table[i]) => Blameless(Table[i], OnLitter)

-----------------------------------------------------------------------------
\* The invariants.

\* What other assertions have left is litter, and what this one sends is its own.
Littered ==
  /\ Seed \subseteq present /\ present \subseteq Seed \cup Litter /\ altered \subseteq Scribbles
  /\ Sent(todo) \cup Sent(final) \cup Undone(todo) \subseteq AllSent

\* The reasons of FailsForAReason.
Deviated == facts \cap {"fault", "guarded", "uncleaned", "dead"} # {}
FoundLitter == "dirty" \in facts /\ ~WipesFirst(Table[cursor])
WasUnbound == "unbound" \in facts /\ (anonReads => Table[cursor].id = "4511.4.8.4")
Excused == Deviated \/ FoundLitter \/ WasUnbound

\* What is known holds.
Holds(k) ==
  /\ k.sure \subseteq present /\ present \subseteq k.may
  /\ k.changed \subseteq altered /\ altered \subseteq k.altered
  /\ identity \in k.who
  /\ k.bound <=> "bound" \in facts
  /\ k.unbound <=> "unbound" \in facts

Beginning == IF "dirty" \in facts THEN OnLitter ELSE OnSeed
\* n steps of the script are done.
Done(n) ==
  /\ Len(todo) = Len(Body) - n /\ \A i \in DOMAIN todo : todo[i] = Body[n + i]
  /\ Holds(Known(Body, Beginning)[n])
  /\ \A i \in DOMAIN final : NeverFails(final[i])
\* The verdict is formed: what is left are the steps of an undo or a clause.
Leaving ==
  /\ \A i \in DOMAIN todo : NeverFails(todo[i]) /\ todo[i].undo = <<>>
  /\ \A i \in DOMAIN final : NeverFails(final[i])

Unblamed ==
  /\ phase = "running" /\ link = "dead" => "dead" \in facts
  /\ phase = "running" /\ ~Excused =>
       verdict # "fail" /\ (Leaving \/ \E n \in 0..Len(Body) : Done(n))
  /\ FailsForAReason
=============================================================================
