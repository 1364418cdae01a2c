----------------------------- MODULE Discipline -----------------------------
(***************************************************************************)
(* Why the suites leave the seed intact: a discipline that the scripts     *)
(* follow, read off their steps without executing them, and the invariant  *)
(* of Suites that it gives.  Whatever an assertion makes is, at every step *)
(* it may return from, gone or about to be removed by what it still does;  *)
(* within a try block the finally clause alone removes all of it.          *)
(*                                                                         *)
(* s is always the script of an assertion and n, i, j, k positions in it;  *)
(* a step at position n finds what those before it have left.              *)
(***************************************************************************)
EXTENDS Suites

-----------------------------------------------------------------------------
\* What a request may do when a conformant server answers it.

Entries(r) == CASE r.kind = "add" -> r.on [] r.kind = "rename" -> {r.to} [] OTHER -> {}
Accepted(r) == 0 \in r.codes
Grows(r) == IF Accepted(r) THEN Entries(r) ELSE {}
Alters(r) == IF Accepted(r) /\ r.kind \in {"modify", "setpw"} THEN r.on \cap Seed ELSE {}
\* It neither deletes nor renames an entry of the seed.
SparesSeed(r) == r.kind \in {"delete", "rename"} /\ Accepted(r) => r.on \cap Seed = {}

Rebinds(st) == st.kind # "try" /\ st.req.as = "shared" /\ st.req.kind \in {"bind", "unbind"}
Returns(st) == st.stop /\ \E c \in Codes : st.ret[c] # "go"
Childless(e) == \A f \in DOMAIN Parent : Parent[f] # e
\* A request of the shared session for e alone, which a conformant server does
\* not refuse of itself.
For(st, kind, e) ==
  /\ st.kind # "try" /\ st.req.kind = kind /\ st.req.as = "shared"
  /\ st.req.on = {e} /\ st.req.codes = {0}

-----------------------------------------------------------------------------
\* What the steps before n may have left.

\* An entry whose parent nothing in the script makes cannot be added.
Makes(s, k) ==
  IF s[k].kind = "try" THEN {}
  ELSE IF s[k].req.kind = "add"
         THEN {e \in Grows(s[k].req) :
                 Above(e) \in Seed \cup UNION {Grows(s[j].req) : j \in DOMAIN s}}
  ELSE Grows(s[k].req)
Made(s, n) == UNION {Makes(s, k) : k \in 1..(n - 1)}

AsAdmin(s, n) ==
  \E b \in 1..(n - 1) :
    /\ Rebinds(s[b]) /\ s[b].req = Bind("admin")
    /\ \A j \in (b + 1)..(n - 1) : ~Rebinds(s[j])

RemovesLeaf(s, i, e) ==
  /\ AsAdmin(s, i)
  /\ \/ For(s[i], "delete", e) /\ Childless(e)
     \/ For(s[i], "rename", e) /\ s[i].req.to \notin Seed \cup Made(s, i)
LeftLeaves(s, n) ==
  {e \in Made(s, n) :
     \E k \in 1..(n - 1) : e \in Makes(s, k) /\ \A j \in (k + 1)..(n - 1) : ~RemovesLeaf(s, j, e)}
\* A parent is removed when its children have been.
Removes(s, i, e) ==
  \/ RemovesLeaf(s, i, e)
  \/ /\ AsAdmin(s, i) /\ For(s[i], "delete", e)
     /\ \A f \in DOMAIN Parent : Parent[f] = e => f \notin Seed \cup LeftLeaves(s, i)
Left(s, n) ==
  {e \in Made(s, n) :
     \E k \in 1..(n - 1) : e \in Makes(s, k) /\ \A j \in (k + 1)..(n - 1) : ~Removes(s, j, e)}

AltersAt(s, k) == IF s[k].kind = "try" THEN {} ELSE Alters(s[k].req)
Restores(s, j, e) == AsAdmin(s, j) /\ For(s[j], "resetpw", e)
Changed(s, n) ==
  {e \in Seed :
     \E k \in 1..(n - 1) : e \in AltersAt(s, k) /\ \A j \in (k + 1)..(n - 1) : ~Restores(s, j, e)}

-----------------------------------------------------------------------------
\* The discipline.

\* Bind with the password that a change of bob's sets: refused, the change was not made.
Disproves(st, e) ==
  st.req.kind = "bind" /\ st.req.to = "bob-new" /\ st.req.codes = {0} /\ e = "bob"

\* What may be there when step n returns: not what a success it goes on after makes.
LeftOnReturn(s, n) ==
  {e \in Left(s, n) : ~Removes(s, n, e)} \cup (IF s[n].ret[0] = "go" THEN {} ELSE Makes(s, n))
ChangedOnReturn(s, n) ==
  {e \in Changed(s, n) : ~Restores(s, n, e) /\ ~(s[n].ret[0] = "go" /\ Disproves(s[n], e))}
  \cup (IF s[n].ret[0] = "go" THEN {} ELSE AltersAt(s, n))

\* A step of a clause that cleans up: it makes and alters nothing and goes on.
Tidies(st) ==
  /\ st.kind # "try" /\ ~Returns(st) /\ SparesSeed(st.req)
  /\ Grows(st.req) = {} /\ Alters(st.req) = {}
Tidy(clause) == \A i \in DOMAIN clause : Tidies(clause[i])
Wiped(clause) ==
  {e \in UNION {clause[i].req.on : i \in DOMAIN clause} :
     e \notin Seed /\ Childless(e) /\ \E i \in DOMAIN clause : For(clause[i], "delete", e)}
KeepsIdentity(clause) == \A i \in DOMAIN clause : ~Rebinds(clause[i])

\* A step of a try block: whatever the answer and the effect, the clause wipes
\* what it may have made, and it touches nothing else.
Bounded(st, clause) ==
  /\ st.kind # "try" /\ ~Rebinds(st) /\ st.undo = <<>>
  /\ Entries(st.req) \subseteq Wiped(clause)
  /\ st.req.kind \in {"delete", "rename", "modify", "setpw"} => st.req.on \cap Seed = {}

OpensTry(s, t) ==
  /\ AsAdmin(s, t) /\ Changed(s, t) = {}
  /\ s[t].undo # <<>> /\ Tidy(s[t].undo) /\ KeepsIdentity(s[t].undo)
  /\ Left(s, t) \subseteq Wiped(s[t].undo)
  /\ \A n \in (t + 1)..Len(s) : Bounded(s[n], s[t].undo)

Outside(s, n) == \A t \in 1..(n - 1) : s[t].kind # "try"

Disciplined(s) ==
  /\ \A n \in DOMAIN s : Outside(s, n) =>
       IF s[n].kind = "try" THEN OpensTry(s, n)
       ELSE /\ SparesSeed(s[n].req)
            /\ Returns(s[n]) =>
                 LeftOnReturn(s, n) = {} /\ ChangedOnReturn(s, n) = {} /\ Tidy(s[n].undo)
  /\ Outside(s, Len(s) + 1) => Left(s, Len(s) + 1) = {} /\ Changed(s, Len(s) + 1) = {}

\* An assertion that is not declared to mutate makes nothing that a conformant
\* server would accept; 3062.2.1 alone alters something, and that is bob.
Innocent(a) ==
  \A k \in DOMAIN a.script :
    /\ a.script[k].kind # "try" /\ Makes(a.script, k) = {}
    /\ AltersAt(a.script, k) # {} => a.id = "3062.2.1" /\ AltersAt(a.script, k) = {"bob"}

\* The registry follows the discipline; the administrator is no entry of the seed.
ASSUME DisciplineAssumption ==
  /\ "people" \in Seed /\ "admin" \notin Seed
  /\ \A i \in DOMAIN Table :
       Disciplined(Table[i].script) /\ (~Table[i].mutates => Innocent(Table[i]))

-----------------------------------------------------------------------------
\* The invariant.

\* The assertion started on the seed, and the server kept to the protocol except
\* in a try block.
Sound == facts \cap {"dirty", "dead", "fault", "uncleaned"} = {}
Extra == present \ Seed
Body == Table[cursor].script

\* Before the try block, at step n of the script.
InTheOpen(n) ==
  /\ final = <<>> /\ Outside(Body, n)
  /\ Len(todo) = Len(Body) + 1 - n /\ \A i \in DOMAIN todo : todo[i] = Body[n - 1 + i]
  /\ Extra \subseteq Left(Body, n) /\ altered \subseteq Changed(Body, n)
  /\ AsAdmin(Body, n) => identity = "admin"
\* In the try block.
Guarded ==
  /\ final # <<>> /\ Tidy(final) /\ KeepsIdentity(final)
  /\ \A i \in DOMAIN todo : Bounded(todo[i], final)
  /\ Extra \subseteq Wiped(final) /\ altered = {} /\ identity = "admin"
\* In the finally clause, or in the steps before an early return.
CleaningUp ==
  /\ final = <<>> /\ Tidy(todo)
  /\ Extra \subseteq Wiped(todo) /\ altered = {}
  /\ Extra # {} => identity = "admin" /\ KeepsIdentity(todo)

Secure ==
  /\ Seed \subseteq present /\ link # "dead"
  /\ \/ \E n \in 1..(Len(Body) + 1) : InTheOpen(n)
     \/ Guarded
     \/ CleaningUp

\* At every step of an assertion whatever it made so far is going to be removed,
\* and the entries of the seed are all there; one that ended left nothing.
Covered ==
  /\ phase = "running" /\ Sound => Secure
  /\ Ended /\ Sound => OnTheSeed
  /\ phase = "probing" => verdict = "none"

\* As long as the server kept to the protocol an assertion is sound, and it leaves
\* the seed to the next one.
Intact ==
  faults = 0 => /\ link # "dead"
                /\ phase = "running" => Sound
                /\ phase # "running" => OnTheSeed

\* An innocent assertion has nothing to clean up.
Unstained ==
  phase = "running" /\ Sound /\ Innocent(Table[cursor]) => final = <<>> /\ Extra = {}
=============================================================================
