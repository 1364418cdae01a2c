------------------------------- MODULE MCBer -------------------------------
(* Ber for TLC: texts of every length at which the encoding of a length      *)
(* changes, numbers at which that of a number does, and a server that writes *)
(* its lengths in every form.                                                *)
EXTENDS Ber

Text(n) == [i \in 1..n |-> 97]
Sizes == {0, 1, 127, 128, 255, 256}
Ids == {1, 2, 127, 128, 255, 256, 32768, 8388607, 8388608}   \* messageIDs
SomeControls == {<<>>, <<BuildControl(Text(3), TRUE, <<>>)>>,
                 <<BuildControl(Text(3), FALSE, <<Text(127)>>), BuildControl(Text(1), TRUE, <<Text(1)>>)>>}

MCRequests ==
  {[kind |-> "bind", id |-> i, version |-> v, dn |-> Text(n), password |-> Text(p)] :
     i \in Ids, v \in {2, 3}, n \in {0, 100}, p \in Sizes}
  \cup {[kind |-> "sasl", id |-> 1, version |-> 3, dn |-> <<>>, mechanism |-> Text(n), credentials |-> c] :
     n \in {0, 8}, c \in {<<>>} \cup {<<Text(k)>> : k \in Sizes}}
  \cup {[kind |-> "modify", id |-> 2, dn |-> Text(n), attribute |-> Text(2), values |-> v, operation |-> o] :
     n \in Sizes, o \in 0..2, v \in {<<>>, <<Text(1)>>, <<Text(127), <<>>>>}}
  \cup {[kind |-> "increment", id |-> 2, dn |-> Text(n), attribute |-> Text(9), by |-> <<49>>] : n \in Sizes}
  \cup {[kind |-> "abandon", id |-> 3, target |-> i] : i \in Ids}
  \cup {[kind |-> "add", id |-> 2, dn |-> Text(n), attributes |-> a] :
     n \in Sizes, a \in {<<>>, <<[type |-> Text(2), vals |-> <<Text(1), Text(128)>>]>>,
                         <<[type |-> Text(2), vals |-> <<Text(1)>>], [type |-> Text(3), vals |-> <<Text(0)>>]>>}}
  \cup {[kind |-> "cancel", id |-> 3, target |-> i] : i \in Ids}
  \cup {[kind |-> "extended", id |-> 1, name |-> Text(n), value |-> v, controls |-> c] :
     n \in {1, 20}, v \in {<<>>} \cup {<<Text(k)>> : k \in Sizes}, c \in SomeControls}
  \cup {[kind |-> "search", id |-> i, base |-> Text(n), attributes |-> a, scope |-> s, filter |-> f, controls |-> c] :
     i \in {1, 128}, n \in {0, 17, 200}, a \in {<<>>, <<Text(1), Text(4)>>}, s \in {0, 2},
     f \in {<<>>, <<BuildExtensibleMatchFilter(Text(3), Text(14), Text(5))>>}, c \in SomeControls}
  \cup {[kind |-> "pagedValue", size |-> i, cookie |-> Text(n)] : i \in {0} \cup Ids, n \in Sizes}
  \cup {[kind |-> "sortValue", attributes |-> a] : a \in {<<Text(n)>> : n \in Sizes} \cup {<<Text(2), Text(3)>>}}
  \cup {[kind |-> "passwordValue", new |-> Text(n), user |-> Text(u), old |-> Text(o)] :
     n \in Sizes, u \in {0, 30}, o \in {0, 9}}
  \cup {[kind |-> "cancelValue", target |-> i] : i \in Ids}
  \cup {[kind |-> "control", oid |-> Text(n), criticality |-> b, value |-> v] :
     n \in {1, 22}, b \in BOOLEAN, v \in {<<>>} \cup {<<Text(k)>> : k \in Sizes}}
  \cup {[kind |-> "extensibleFilter", attribute |-> Text(3), rule |-> Text(14), value |-> Text(n)] : n \in Sizes}

Blank == [id |-> 2, form |-> 0, code |-> 0, text |-> <<>>, attributes |-> <<>>,
          creds |-> <<>>, controls |-> <<>>]
Of(kind) == [kind |-> kind] @@ Blank
AControl(oid, critical, holds, value) ==
  [oid |-> oid, criticality |-> critical, holds |-> holds, value |-> value]
OneEntry == <<[type |-> <<99>>, vals |-> <<<<48>>, <<>>>>], [type |-> <<100>>, vals |-> <<>>]>>
MCAnswers ==
  {[Of("bind") EXCEPT !.id = 1, !.code = 49, !.form = 4],
   [Of("entry") EXCEPT !.attributes = OneEntry,
      !.controls = <<AControl(<<7>>, FALSE, "octets", <<48, 4>>)>>],
   [Of("entry") EXCEPT !.form = 2, !.attributes = <<[type |-> <<99>>, vals |-> <<<<10>>>>]>>],
   [Of("reference") EXCEPT !.text = Text(3), !.form = 1],
   [Of("done") EXCEPT !.form = 1, !.code = 32, !.text = Text(2),
      !.controls = <<AControl(<<8>>, TRUE, "cookie", <<4, 1>>), AControl(<<9>>, FALSE, "sortCode", <<16>>)>>],
   [Of("done") EXCEPT !.text = Text(120)],
   [Of("modify") EXCEPT !.controls = <<AControl(<<8>>, FALSE, "entry", OneEntry)>>],
   [Of("notice") EXCEPT !.id = 0, !.code = 52, !.form = 4],
   Of("intermediate")}
\* A server that sends serverSaslCreds in the response to a simple bind.
CredsAnswers == MCAnswers \cup {[Of("bind") EXCEPT !.creds = <<<<1>>>>]}
MCAbandon == {r \in MCRequests : r.kind = "abandon"}
MCSearch == {r \in MCRequests : r.kind = "search" /\ r.id = 1 /\ r.base = <<>>}
=============================================================================
