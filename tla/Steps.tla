-------------------------------- MODULE Steps --------------------------------
(***************************************************************************)
(* The vocabulary in which the runner functions of bauble's suites are     *)
(* written down.  A runner function becomes a script: the sequence of its  *)
(* calls, each with what the function does about every result code it may  *)
(* get back.  Suites.tla executes scripts on a session and a directory.    *)
(*                                                                         *)
(* Entries are named after their RDN.  A filter, an attribute or a control *)
(* appears only in the answer a conformant server gives: codes is the set  *)
(* of result codes such a server may return when everything the request    *)
(* builds on is in place.  Where the code also looks at entries, values or *)
(* matchedDN, code 0 (or the code compared) stands for the answer it looks *)
(* for, and 16 for a well-formed answer without it.                        *)
(***************************************************************************)
EXTENDS Integers, Sequences

\* The result codes the suites distinguish; -1 is an answer that never came
\* or was no LDAP message (Outcome(result_code=-1) of the raw layer), 80 stands
\* for every other code.
Codes == {-1, 0, 2, 4, 5, 6, 7, 10, 12, 13, 14, 16, 18, 19, 21, 32, 33, 34, 36,
          49, 50, 53, 64, 65, 66, 67, 68, 69, 76, 80, 118, 119, 120, 121, 122}
Refusals == Codes \ {0}

-----------------------------------------------------------------------------
\* Requests.  as is the identity of a connection the function opened for
\* itself, "shared" for the session of the run.

Request(kind, on, to, codes) ==
  [kind |-> kind, as |-> "shared", on |-> on, to |-> to, codes |-> codes]

\* Search and compare of the entries on; the empty set is the root DSE or the
\* subschema, which every server has.
Read(on, codes) == Request("read", on, "", codes)
Search(on) == Read(on, {0})
RootDse == Search({})
\* Whether the root DSE or the schema names something: it may or may not.
Advertised == Read({}, {0, 16})

Bind(who) == Request("bind", {}, who, {0})
\* A bind that must be refused leaves the session anonymous.
BadBind(codes) == Request("bind", {}, "anonymous", codes)
Unbind == Request("unbind", {}, "", {0})

\* Updates; codes other than {0} mean that the request violates something and
\* a conformant server refuses it.
Add(e, codes) == Request("add", {e}, "", codes)
Delete(e, codes) == Request("delete", {e}, "", codes)
Modify(e, codes) == Request("modify", {e}, "", codes)
Rename(e, f) == Request("rename", {e}, f, {0})
\* Password Modify (RFC 3062) that gives e another password, and the one that
\* gives it back the password of the seed.
SetPassword(e, codes) == Request("setpw", {e}, "", codes)
RestorePassword(e) == Request("resetpw", {e}, "", {0})
\* Anything else: an extended operation, a PDU built by hand.
Send(codes) == Request("send", {}, "", codes)

\* The same request over a connection of its own, bound as who (RawConnection,
\* a fresh LdapSession).
Own(who, req) == [req EXCEPT !.as = who]

-----------------------------------------------------------------------------
\* Steps.  ret[c] is what the function returns for code c, "go" when it goes
\* on; undo are the steps it still takes before it returns.  A step that only
\* notes its verdict (stop = FALSE) does not return: the rest of the script
\* follows.  kind "try" enters a try block, whose finally clause is undo; the
\* exceptions of a step of kind "cleanup" are ignored.

Statuses == {"pass", "fail", "blocked", "not_applicable"}
Go == [c \in Codes |-> "go"]
Unless(want, v) == [c \in Codes |-> IF c \in want THEN "go" ELSE v]

Step(kind, req, ret, stop, undo) ==
  [kind |-> kind, req |-> req, ret |-> ret, stop |-> stop, undo |-> undo]

\* session.<op>(...) whose outcome is not looked at
Do(req) == Step("call", req, Go, FALSE, <<>>)
\* if outcome.result_code not in want: return v
Check(req, want, v) == Step("call", req, Unless(want, v), TRUE, <<>>)
\* ... after doing undo
CheckUndo(req, want, v, undo) == Step("call", req, Unless(want, v), TRUE, undo)
\* outcome = ...; return Result(PASS if code in want else FAIL), possibly
\* after the steps that follow
Note(req, want) == Step("call", req, Unless(want, "fail"), FALSE, <<>>)
\* _helpers.cleanup: a delete whose failure and whose exception are ignored
Cleanup(e) == Step("cleanup", Delete(e, {0}), Go, FALSE, <<>>)
\* try: ... finally: undo, to the end of the function
Try(undo) == Step("try", Unbind, Go, FALSE, undo)

\* _helpers.bind_admin
BindAdmin == Do(Bind("admin"))

-----------------------------------------------------------------------------
\* The decorator: what the engine reads of an assertion.

Assertion(id, mutates, requires, script) ==
  [id |-> id, mutates |-> mutates, requires |-> requires, script |-> script]
Plain(id, script) == Assertion(id, FALSE, {}, script)
Mutating(id, script) == Assertion(id, TRUE, {}, script)

-----------------------------------------------------------------------------
\* The types of all this.  The steps of an undo have none of their own.

Requests ==
  [kind : {"read", "bind", "unbind", "add", "delete", "modify", "rename", "setpw",
           "resetpw", "send"},
   as : {"shared", "anonymous", "admin", "alice", "bob"},
   on : SUBSET STRING, to : STRING, codes : SUBSET Codes]
StepsWith(undos) ==
  [kind : {"call", "cleanup", "try"}, req : Requests, ret : [Codes -> Statuses \cup {"go"}],
   stop : BOOLEAN, undo : undos]
PlainSteps == StepsWith({<<>>})
AnySteps == StepsWith(Seq(PlainSteps))
Assertions ==
  [id : STRING, mutates : BOOLEAN, requires : SUBSET STRING, script : Seq(AnySteps)]
=============================================================================
