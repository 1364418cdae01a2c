-------------------------------- MODULE Ber --------------------------------
(***************************************************************************)
(* BER by hand (raw.py): the PDUs that the raw layer builds, as the server *)
(* reads them, and what its parsers make of the server's answer when an    *)
(* arbitrary part of it has arrived.  Octets are numbers, texts and values *)
(* are sequences of octets, and an optional one is a sequence of them that *)
(* is empty or has one element.                                            *)
(***************************************************************************)
EXTENDS Integers, Sequences, SequencesExt

CONSTANTS
  Requests,   \* what the client asks for, records as Build takes them
  Answers,    \* the messages a server may send, records as Wire takes them
  MaxSent     \* bound: so many messages at most

ASSUME BerAssumption == MaxSent \in Nat

Octets == 0..255
Texts == Seq(Octets)
\* Object identifiers and the names of attributes are ASCII: decoding one as
\* UTF-8, with replacements, leaves it as it is.
Names == Seq(0..127)
\* The attributes of an entry, a dict in the code: each type once.
Attributes == [type : Names, vals : Seq(Texts)]
Entries == {e \in Seq(Attributes) : \A i, j \in DOMAIN e : e[i].type = e[j].type => i = j}
Concat(ss) == FlattenSeq(ss)
Each(Op(_), s) == [i \in DOMAIN s |-> Op(s[i])]
UpTo(s, n) == SubSeq(s, 1, IF n < Len(s) THEN n ELSE Len(s))   \* data[:n]
Drop(s, n) == SubSeq(s, n + 1, Len(s))                         \* data[n:]

-----------------------------------------------------------------------------
\* Encoding.

\* Mutant: a length of more than 255 in the one-octet long form.
EncodeLengthShort(n) == IF n < 128 THEN <<n>> ELSE <<129, n>>
\* Mutant: 128 still in the short form, where it says "indefinite".
EncodeLength128(n) ==
  IF n <= 128 THEN <<n>>
  ELSE IF n < 256 THEN <<129, n>>
  ELSE <<130, (n \div 256) % 256, n % 256>>

EncodeLength(n) ==
  IF n < 128 THEN <<n>>
  ELSE IF n < 256 THEN <<129, n>>
  ELSE <<130, (n \div 256) % 256, n % 256>>

Tlv(tag, contents) == <<tag>> \o EncodeLength(Len(contents)) \o contents

\* The octets of a number, one more than it needs when its top bit is set.
\* Bound: numbers are less than 2^31, as those of LDAP are.
IntegerOctets(n) ==
  IF n < 128 THEN <<n>>
  ELSE IF n < 32768 THEN <<n \div 256, n % 256>>
  ELSE IF n < 8388608 THEN <<n \div 65536, (n \div 256) % 256, n % 256>>
  ELSE <<n \div 16777216, (n \div 65536) % 256, (n \div 256) % 256, n % 256>>

EncodeInteger(n) == Tlv(2, IntegerOctets(n))
EncodeOctetString(s) == Tlv(4, s)
EncodeSequence(contents) == Tlv(48, contents)
EncodeEnumerated(n) == <<10, 1, n>>
Strings(ss) == Concat(Each(EncodeOctetString, ss))

LDAPMessage(id, op) == EncodeSequence(EncodeInteger(id) \o op)
WithControls(id, op, controls) ==
  LDAPMessage(id, op \o (IF controls = <<>> THEN <<>> ELSE Tlv(160, Concat(controls))))

BuildBindRequestAuth(id, version, dn, auth) ==
  LDAPMessage(id, Tlv(96, EncodeInteger(version) \o EncodeOctetString(dn) \o auth))

BuildBindRequest(id, version, dn, password) ==
  BuildBindRequestAuth(id, version, dn, Tlv(128, password))

BuildSaslBindRequest(id, version, dn, mechanism, credentials) ==
  BuildBindRequestAuth(id, version, dn,
                       Tlv(163, EncodeOctetString(mechanism) \o Strings(credentials)))

PagedResultsControlValue(size, cookie) ==
  EncodeSequence(EncodeInteger(size) \o EncodeOctetString(cookie))

SortControlValue(attributes) ==
  EncodeSequence(Concat(Each(LAMBDA a : EncodeSequence(EncodeOctetString(a)), attributes)))

PasswordModifyRequestValue(new, user, old) ==
  EncodeSequence(Concat(<<IF user = <<>> THEN <<>> ELSE Tlv(128, user),
                          IF old = <<>> THEN <<>> ELSE Tlv(129, old),
                          Tlv(130, new)>>))

\* One change of one attribute; increment is operation 3.
BuildModifyRequest(id, dn, attribute, values, operation) ==
  LET partial == EncodeSequence(EncodeOctetString(attribute) \o Tlv(49, Strings(values)))
      change == EncodeSequence(EncodeEnumerated(operation) \o partial)
  IN  LDAPMessage(id, Tlv(102, EncodeOctetString(dn) \o EncodeSequence(change)))

BuildModifyIncrement(id, dn, attribute, by) ==
  BuildModifyRequest(id, dn, attribute, <<by>>, 3)

BuildAbandonRequest(id, abandoned) == LDAPMessage(id, Tlv(80, EncodeInteger(abandoned)))

BuildAddRequest(id, dn, attributes) ==
  LET Partial(a) == EncodeSequence(EncodeOctetString(a.type) \o Tlv(49, Strings(a.vals)))
  IN  LDAPMessage(id, Tlv(104, EncodeOctetString(dn)
                               \o EncodeSequence(Concat(Each(Partial, attributes)))))

BuildExtendedRequest(id, name, value, controls) ==
  WithControls(id, Tlv(119, Tlv(128, name) \o Concat(Each(LAMBDA v : Tlv(129, v), value))),
               controls)

CancelValue(target) == EncodeSequence(EncodeInteger(target))
CancelOid == <<49, 46, 51, 46, 54, 46, 49, 46, 49, 46, 56>>
BuildCancelRequest(id, target) ==
  BuildExtendedRequest(id, CancelOid, <<CancelValue(target)>>, <<>>)

ObjectClass == [i \in 1..11 |-> 111]   \* "objectClass", by its length
PresentFilter == Tlv(135, ObjectClass)
BuildSearchRequest(id, base, attributes, scope, filter, controls) ==
  WithControls(id, Tlv(99, Concat(<<
    EncodeOctetString(base), EncodeEnumerated(scope), EncodeEnumerated(0),
    EncodeInteger(0), EncodeInteger(0), <<1, 1, 0>>,
    IF filter = <<>> THEN PresentFilter ELSE filter[1],
    EncodeSequence(Strings(attributes))>>)), controls)

BuildControl(oid, criticality, value) ==
  EncodeSequence(EncodeOctetString(oid)
                 \o (IF criticality THEN <<1, 1, 255>> ELSE <<>>) \o Strings(value))

\* The length is that of the text, in characters: an octet of UTF-8 that
\* continues a character does not count.
Characters(s) == Cardinality({i \in DOMAIN s : s[i] \notin 128..191})
BuildExtensibleMatchFilter(attribute, rule, value) ==
  LET Part(tag, s) == <<tag>> \o EncodeLength(Characters(s)) \o s
  IN  Tlv(169, Part(129, rule) \o Part(130, attribute) \o Part(131, value))

\* What the methods are given: for each kind of request (or of value) its arguments.
Numbers == {n \in Nat : n <= 2147483647}
Askable(r) ==
  \/ /\ r.kind \in {"bind", "sasl"} /\ r.id \in Numbers /\ r.version \in Numbers /\ r.dn \in Texts
     /\ \/ r.kind = "bind" /\ r.password \in Texts
        \/ r.kind = "sasl" /\ r.mechanism \in Texts /\ r.credentials \in Seq(Texts)
  \/ /\ r.kind \in {"modify", "increment"} /\ r.id \in Numbers /\ r.dn \in Texts
     /\ r.attribute \in Texts
     /\ \/ r.kind = "modify" /\ r.values \in Seq(Texts) /\ r.operation \in 0..3
        \/ r.kind = "increment" /\ r.by \in Texts
  \/ r.kind \in {"abandon", "cancel"} /\ r.id \in Numbers /\ r.target \in Numbers
  \/ r.kind = "add" /\ r.id \in Numbers /\ r.dn \in Texts /\ r.attributes \in Entries
  \/ /\ r.kind = "extended" /\ r.id \in Numbers /\ r.name \in Texts /\ r.value \in Seq(Texts)
     /\ r.controls \in Seq(Texts)
  \/ /\ r.kind = "search" /\ r.id \in Numbers /\ r.base \in Texts /\ r.attributes \in Seq(Texts)
     /\ r.scope \in 0..3 /\ r.filter \in Seq(Texts) /\ r.controls \in Seq(Texts)
  \/ r.kind = "pagedValue" /\ r.size \in Numbers /\ r.cookie \in Texts
  \/ r.kind = "sortValue" /\ r.attributes \in Seq(Texts)
  \/ r.kind = "passwordValue" /\ r.new \in Texts /\ r.user \in Texts /\ r.old \in Texts
  \/ r.kind = "cancelValue" /\ r.target \in Numbers
  \/ /\ r.kind = "control" /\ r.oid \in Texts /\ r.criticality \in BOOLEAN
     /\ r.value \in Seq(Texts)
  \/ /\ r.kind = "extensibleFilter" /\ r.attribute \in Texts /\ r.rule \in Texts
     /\ r.value \in Texts
ASSUME RequestsAssumption == \A r \in Requests : Askable(r)

\* The method that is called for each kind.
Build(r) ==
  CASE r.kind = "bind" -> BuildBindRequest(r.id, r.version, r.dn, r.password)
    [] r.kind = "sasl" ->
         BuildSaslBindRequest(r.id, r.version, r.dn, r.mechanism, r.credentials)
    [] r.kind = "modify" ->
         BuildModifyRequest(r.id, r.dn, r.attribute, r.values, r.operation)
    [] r.kind = "increment" -> BuildModifyIncrement(r.id, r.dn, r.attribute, r.by)
    [] r.kind = "abandon" -> BuildAbandonRequest(r.id, r.target)
    [] r.kind = "add" -> BuildAddRequest(r.id, r.dn, r.attributes)
    [] r.kind = "cancel" -> BuildCancelRequest(r.id, r.target)
    [] r.kind = "extended" -> BuildExtendedRequest(r.id, r.name, r.value, r.controls)
    [] r.kind = "search" ->
         BuildSearchRequest(r.id, r.base, r.attributes, r.scope, r.filter, r.controls)
    [] r.kind = "pagedValue" -> PagedResultsControlValue(r.size, r.cookie)
    [] r.kind = "sortValue" -> SortControlValue(r.attributes)
    [] r.kind = "passwordValue" -> PasswordModifyRequestValue(r.new, r.user, r.old)
    [] r.kind = "cancelValue" -> CancelValue(r.target)
    [] r.kind = "control" -> BuildControl(r.oid, r.criticality, r.value)
    [] r.kind = "extensibleFilter" ->
         BuildExtensibleMatchFilter(r.attribute, r.rule, r.value)

-----------------------------------------------------------------------------
\* How a server reads a PDU (RFC 4511, section 5.1 and appendix B): a tree of
\* elements, constructed when bit 6 of the tag says so, with the value of the
\* primitive ones that are numbers: INTEGER, ENUMERATED and, by implicit
\* tagging, the MessageID of an AbandonRequest.

Leaf(tag, octets) == [tag |-> tag, octets |-> octets, parts |-> <<>>]
Node(tag, parts) == [tag |-> tag, octets |-> <<>>, parts |-> parts]
Unreadable == Leaf(-1, <<>>)

\* The number of a sequence of octets, of which the last four count.
Octet(s, k) == IF k < Len(s) THEN s[Len(s) - k] ELSE 0
Unsigned(s) ==
  Octet(s, 0) + 256 * Octet(s, 1) + 65536 * Octet(s, 2) + 16777216 * Octet(s, 3)
Signed(s) ==
  Unsigned(s) - (IF s # <<>> /\ s[1] > 127 THEN 256 ^ Len(s) ELSE 0)

Elements[d \in Seq(Octets)] ==
  IF d = <<>> THEN <<>>
  ELSE IF Len(d) < 2 THEN <<Unreadable>>
  ELSE LET long == IF d[2] < 128 THEN 0 ELSE d[2] - 128
           size == IF long = 0 THEN d[2] ELSE Unsigned(SubSeq(d, 3, 2 + long))
           rest == Drop(d, 2 + long)
           contents == UpTo(rest, size)
       IN  IF d[2] = 128 \/ Len(d) < 2 + long \/ Len(rest) < size THEN <<Unreadable>>
           ELSE <<IF (d[1] \div 32) % 2 = 1 THEN Node(d[1], Elements[contents])
                  ELSE Leaf(d[1], IF d[1] \in {2, 10, 80} THEN <<Signed(contents)>>
                                  ELSE contents)>>
                \o Elements[Drop(rest, size)]

Num(n) == Leaf(2, <<n>>)
Enum(n) == Leaf(10, <<n>>)
Str(s) == Leaf(4, s)
Strs(ss) == Each(Str, ss)
Message(id, op, controls) ==
  Node(48, <<Num(id), op>>
           \o (IF controls = <<>> THEN <<>>
               ELSE <<Node(160, Concat([i \in DOMAIN controls |-> Elements[controls[i]]]))>>))
Attribute(type, vals) == Node(48, <<Str(type), Node(49, Strs(vals))>>)
Change(operation, attribute, vals) ==
  Node(48, <<Node(48, <<Enum(operation), Attribute(attribute, vals)>>)>>)

\* What the caller of each method asked for.
Meant(r) ==
  CASE r.kind = "bind" ->
         Message(r.id, Node(96, <<Num(r.version), Str(r.dn), Leaf(128, r.password)>>), <<>>)
    [] r.kind = "sasl" ->
         Message(r.id, Node(96, <<Num(r.version), Str(r.dn),
           Node(163, <<Str(r.mechanism)>> \o Strs(r.credentials))>>), <<>>)
    [] r.kind = "modify" ->
         Message(r.id, Node(102, <<Str(r.dn), Change(r.operation, r.attribute, r.values)>>), <<>>)
    [] r.kind = "increment" ->
         Message(r.id, Node(102, <<Str(r.dn), Change(3, r.attribute, <<r.by>>)>>), <<>>)
    [] r.kind = "abandon" -> Message(r.id, Leaf(80, <<r.target>>), <<>>)
    [] r.kind = "add" ->
         Message(r.id, Node(104, <<Str(r.dn),
           Node(48, Each(LAMBDA a : Attribute(a.type, a.vals), r.attributes))>>), <<>>)
    [] r.kind = "cancel" ->
         Message(r.id, Node(119, <<Leaf(128, CancelOid), Leaf(129, CancelValue(r.target))>>), <<>>)
    [] r.kind = "extended" ->
         Message(r.id, Node(119, <<Leaf(128, r.name)>>
           \o Each(LAMBDA v : Leaf(129, v), r.value)), r.controls)
    [] r.kind = "search" ->
         Message(r.id, Node(99, <<Str(r.base), Enum(r.scope), Enum(0), Num(0), Num(0),
           Leaf(1, <<0>>)>>
           \o (IF r.filter = <<>> THEN <<Leaf(135, ObjectClass)>> ELSE Elements[r.filter[1]])
           \o <<Node(48, Strs(r.attributes))>>), r.controls)
    [] r.kind = "pagedValue" -> Node(48, <<Num(r.size), Str(r.cookie)>>)
    [] r.kind = "sortValue" ->
         Node(48, Each(LAMBDA a : Node(48, <<Str(a)>>), r.attributes))
    [] r.kind = "passwordValue" ->
         Node(48, (IF r.user = <<>> THEN <<>> ELSE <<Leaf(128, r.user)>>)
                  \o (IF r.old = <<>> THEN <<>> ELSE <<Leaf(129, r.old)>>)
                  \o <<Leaf(130, r.new)>>)
    [] r.kind = "cancelValue" -> Node(48, <<Num(r.target)>>)
    [] r.kind = "control" ->
         Node(48, <<Str(r.oid)>> \o (IF r.criticality THEN <<Leaf(1, <<255>>)>> ELSE <<>>)
                  \o Strs(r.value))
    [] r.kind = "extensibleFilter" ->
         Node(169, <<Leaf(129, r.rule), Leaf(130, r.attribute), Leaf(131, r.value)>>)

-----------------------------------------------------------------------------
\* Parsing.  A cursor is what is left to read and whether the parser is still
\* going: it gives up on a tag it does not expect, and raises IndexError when
\* the octet after a tag is not there.  A slice beyond the end is cut short;
\* cut tells whether the element the cursor has entered is.

Cursor(left, state) == [left |-> left, size |-> 0, cut |-> FALSE, state |-> state]

\* _parse_length of s, which is not empty: <<length, octets it takes>>.
ParseLength(s) ==
  IF s[1] < 128 THEN <<s[1], 1>>
  ELSE <<Unsigned(UpTo(Tail(s), s[1] - 128)), 1 + s[1] - 128>>

\* Mutant: an element is never taken to go on beyond the data.
NeverBeyondEnd(s, end) == FALSE

BeyondEnd(s, end) == end > Len(s)

\* Past a tag, of the ones expected, and its length.
Enter(c, tags) ==
  IF c.state # "ok" THEN c
  ELSE IF c.left = <<>> \/ Head(c.left) \notin tags THEN Cursor(<<>>, "None")
  ELSE IF Len(c.left) = 1 THEN Cursor(<<>>, "IndexError")
  ELSE LET length == ParseLength(Tail(c.left))
       IN  [left |-> Drop(c.left, 1 + length[2]), size |-> length[1], state |-> "ok",
            cut |-> BeyondEnd(c.left, 1 + length[2] + length[1])]

Over(c) == [c EXCEPT !.left = Drop(c.left, c.size)]
Contents(c) == UpTo(c.left, c.size)
Skip(c, tags) == Over(Enter(c, tags))
Optional(c, tag) ==
  IF c.state # "ok" \/ c.left = <<>> \/ Head(c.left) # tag THEN c ELSE Skip(c, {tag})

Start(d) == Cursor(d, "ok")
AfterMessageID(d) == Skip(Enter(Start(d), {48}), {2})

Result(state, value) == [state |-> state, value |-> value]

ParseMessageId(d) ==
  LET id == Enter(Enter(Start(d), {48}), {2})
  IN  IF Len(d) < 2 THEN Result("None", 0)
      ELSE IF id.cut THEN Result("None", 0)
      ELSE Result(id.state, Unsigned(Contents(id)))

\* Mutant: whatever stands in the place of the result code is taken for it.
ParseResultAnyTag(d, tags) ==
  LET code == Enter(Enter(AfterMessageID(d), tags), Octets)
      texts == Optional(Optional(Over(code), 4), 4)
  IN  Result(texts.state, Unsigned(Contents(code)))

\* The resultCode, read on to the end of matchedDN and diagnosticMessage.
ParseResult(d, tags) ==
  LET code == Enter(Enter(AfterMessageID(d), tags), {10})
      texts == Optional(Optional(Over(code), 4), 4)
  IN  Result(texts.state, Unsigned(Contents(code)))

ParseLdapResult(d) == ParseResult(d, 96..127)

\* _parse_bind_response goes on to serverSaslCreds.
AfterTexts(d) ==
  Optional(Optional(Skip(Enter(AfterMessageID(d), {97}), {10}), 4), 4)
ParseBindResponse(d) ==
  Result(Optional(AfterTexts(d), 128).state, ParseResult(d, {97}).value)
ServerSaslCreds(d) ==
  LET creds == Enter(AfterTexts(d), {128})
  IN  IF creds.state = "ok" THEN <<Contents(creds)>> ELSE <<>>

\* _split_messages: the whole messages at the front.
SplitMessages[d \in Seq(Octets)] ==
  IF d = <<>> \/ Head(d) # 48 THEN Result("ok", <<>>)
  ELSE LET message == Enter(Start(d), {48})
           rest == SplitMessages[Over(message).left]
       IN  IF message.state # "ok" THEN Result(message.state, <<>>)
           ELSE IF message.cut THEN Result("ok", <<>>)
           ELSE Result(rest.state,
                       <<SubSeq(d, 1, Len(d) - Len(Over(message).left))>> \o rest.value)

\* Octets before the next message are passed over; one octet is no message.
LastCompleteMessage[d \in Seq(Octets)] ==
  IF Len(d) < 2 THEN <<>>
  ELSE IF Head(d) # 48 THEN LastCompleteMessage[Tail(d)]
  ELSE LET message == Enter(Start(d), {48})
           rest == Over(message).left
           later == LastCompleteMessage[rest]
       IN  IF message.cut THEN <<>>
           ELSE IF later # <<>> THEN later ELSE SubSeq(d, 1, Len(d) - Len(rest))

\* The contents of the elements of s, each with one of the tags, up to the
\* first that has none of them.
List(s, tags) ==
  LET list[l \in Seq(Octets)] ==
        LET c == Enter(Start(l), tags)
        IN  IF c.state # "ok" THEN <<>> ELSE <<Contents(c)>> \o list[Over(c).left]
  IN  list[s]

\* Mutant: a criticality before the value is not passed over.
ParseControlUncritical(s) ==
  LET type == Enter(Start(s), {4})
      value == Enter(Over(type), {4})
  IN  [oid |-> Contents(type),
       value |-> IF value.state = "ok" THEN Contents(value) ELSE <<>>]

\* A control: its type and, if any, the octet string after it; the criticality
\* between them is passed over.
ParseControl(s) ==
  LET type == Enter(Start(s), {4})
      value == Enter(Optional(Over(type), 1), {4})
  IN  [oid |-> Contents(type),
       value |-> IF value.state = "ok" THEN Contents(value) ELSE <<>>]

ControlsOfMessage(message) ==
  LET controls == Enter(Skip(AfterMessageID(message), Octets), {160})
  IN  IF controls.state # "ok" THEN <<>>
      ELSE Each(ParseControl, List(Contents(controls), {48}))

ParseResponseControls(d) ==
  IF LastCompleteMessage[d] = <<>> THEN <<>>
  ELSE ControlsOfMessage(LastCompleteMessage[d])

ParseAllResponseControls(d) == Concat(Each(ControlsOfMessage, SplitMessages[d].value))

ParseSortResult(value) ==
  LET code == Enter(Enter(Start(value), {48}), {10})
  IN  IF code.state = "ok" THEN Unsigned(Contents(code)) ELSE -1

ParsePagedCookie(value) ==
  LET cookie == Enter(Skip(Enter(Start(value), {48}), {2}), {4})
  IN  IF cookie.state = "ok" THEN Contents(cookie) ELSE <<>>

\* The attributes of an entry at its objectName, for a whole message: no inner
\* length reaches beyond the outer one.
ParseAttribute(s) ==
  LET type == Enter(Start(s), {4})
      vals == Enter(Over(type), {49})
  IN  [type |-> Contents(type),
       vals |-> IF vals.state = "ok" THEN List(Contents(vals), {4}) ELSE <<>>]
ParseAttributes(entry) ==
  LET attributes == Enter(Skip(Start(Contents(entry)), {4}), {48})
  IN  Each(ParseAttribute, List(Contents(attributes), {48}))

\* The bare entry in a Pre-Read or Post-Read response control (RFC 4527).
ParseSearchResultEntry(d) ==
  LET entry == Enter(Start(d), {100})
  IN  IF entry.state = "ok" THEN ParseAttributes(entry) ELSE <<>>

EntryOfMessage(message) ==
  LET entry == Enter(AfterMessageID(message), {100})
  IN  IF entry.state = "ok" THEN <<ParseAttributes(entry)>> ELSE <<>>

ParseSearchEntries(d) == Concat(Each(EntryOfMessage, SplitMessages[d].value))

\* The code of the last message that has one, of whatever kind; -1 for none.
ParseSearchCode(d) ==
  LET results == Each(ParseLdapResult, SplitMessages[d].value)
      coded == {i \in DOMAIN results : results[i].state = "ok"}
  IN  IF coded = {} THEN -1 ELSE results[Max(coded)].value

-----------------------------------------------------------------------------
\* The server under test (RFC 4511).  A message has an id, the form of its
\* lengths (0: the shortest, n: n octets after the first), and, as its kind
\* has them, a code, a text, the attributes of an entry, serverSaslCreds and
\* controls.  The value of a control holds octets, the cookie of a page, the
\* code of a sort, or an entry.

ServerLength(form, n) ==
  IF form = 0 THEN IF n < 128 THEN <<n>> ELSE <<129, n % 256>>
  ELSE <<128 + form>>
       \o SubSeq(<<(n \div 16777216) % 256, (n \div 65536) % 256, (n \div 256) % 256, n % 256>>,
                 5 - form, 4)
Element(form, tag, contents) ==
  <<tag>> \o ServerLength(form, Len(contents)) \o contents
ElementsOf(form, tag, parts) ==
  Concat([i \in DOMAIN parts |-> Element(form, tag, parts[i])])

OpTag == [bind |-> 97, entry |-> 100, done |-> 101, modify |-> 103,
          reference |-> 115, notice |-> 120, intermediate |-> 121]
HasCode(m) == m.kind \in {"bind", "done", "modify", "notice"}

\* The entry of a search, or of a Pre-Read or Post-Read control.
AttributeContents(form, a) ==
  Element(form, 4, a.type) \o Element(form, 49, ElementsOf(form, 4, a.vals))
EntryContents(form, attributes) ==
  Element(form, 4, <<>>)
  \o Element(form, 48, ElementsOf(form, 48, [i \in DOMAIN attributes |->
                                              AttributeContents(form, attributes[i])]))

ControlValue(form, c) ==
  LET E(tag, contents) == Element(form, tag, contents)
  IN  CASE c.holds = "octets" -> c.value
        [] c.holds = "cookie" -> E(48, E(2, <<0>>) \o E(4, c.value))
        [] c.holds = "sortCode" -> E(48, E(10, c.value))
        [] c.holds = "entry" -> E(100, EntryContents(form, c.value))
ControlContents(form, c) ==
  Element(form, 4, c.oid)
  \o ((IF c.criticality THEN Element(form, 1, <<255>>) ELSE <<>>)
       \o Element(form, 4, ControlValue(form, c)))

OpContents(m) ==
  IF HasCode(m)
    THEN Element(m.form, 10, <<m.code>>)
         \o (Element(m.form, 4, <<>>)
              \o (Element(m.form, 4, m.text) \o ElementsOf(m.form, 135, m.creds)))
  ELSE IF m.kind = "entry" THEN EntryContents(m.form, m.attributes)
  ELSE Element(m.form, 4, m.text)

ControlsContents(m) ==
  IF m.controls = <<>> THEN <<>>
  ELSE Element(m.form, 160,
               ElementsOf(m.form, 48, [i \in DOMAIN m.controls |->
                                         ControlContents(m.form, m.controls[i])]))

WireContents(m) ==
  Element(m.form, 2, <<m.id>>)
  \o (Element(m.form, OpTag[m.kind], OpContents(m)) \o ControlsContents(m))
Wire(m) == Element(m.form, 48, WireContents(m))

\* What a server may send.  Bound: a messageID and a code of one octet.
SendableControl(c) ==
  /\ c.oid \in Names /\ c.criticality \in BOOLEAN
  /\ \/ c.holds \in {"octets", "cookie"} /\ c.value \in Texts
     \/ c.holds = "sortCode" /\ c.value \in [1..1 -> 0..127]
     \/ c.holds = "entry" /\ c.value \in Entries
SendableControls(cs) ==
  cs \in Seq({cs[i] : i \in DOMAIN cs}) /\ \A i \in DOMAIN cs : SendableControl(cs[i])
SendableMessage(m) ==
  /\ m.kind \in DOMAIN OpTag /\ m.id \in 0..127 /\ m.code \in 0..127 /\ m.form \in 0..4
  /\ m.text \in Texts /\ m.creds \in Seq(Texts) /\ m.attributes \in Entries
  /\ SendableControls(m.controls)

\* What a length of each form has room for.
Capacity(form) ==
  CASE form \in {0, 1} -> 256 [] form = 2 -> 65536 [] form = 3 -> 16777216
    [] form = 4 -> 2147483647
ASSUME AnswersAssumption ==
  \A m \in Answers : SendableMessage(m) /\ Len(WireContents(m)) < Capacity(m.form)

-----------------------------------------------------------------------------
VARIABLES
  request,   \* what the client has asked, until it is answered
  pdu,       \* the octets it has sent for that
  sent,      \* the messages the server has sent in return
  buffer     \* the octets of them the client has read

vars == <<request, pdu, sent, buffer>>
Idle == [kind |-> "none"]
Stream == Concat(Each(Wire, sent))

Init == request = Idle /\ pdu = <<>> /\ sent = <<>> /\ buffer = <<>>

Ask ==
  /\ request = Idle /\ sent = <<>>
  /\ \E r \in Requests : request' = r /\ pdu' = Build(r)
  /\ UNCHANGED <<sent, buffer>>

\* Only a search is answered here: what it can be answered with includes late
\* answers to other requests and what nobody asked for.
Answer ==
  /\ request.kind = "search" \/ sent # <<>>
  /\ Len(sent) < MaxSent
  /\ \E m \in Answers : sent' = Append(sent, m)
  /\ request' = Idle /\ pdu' = <<>>
  /\ UNCHANGED buffer

\* bind_then_send_raw appends what recv returns: the octets, in order.
Receive ==
  /\ Len(buffer) < Len(Stream)
  /\ buffer' = Append(buffer, Stream[Len(buffer) + 1])
  /\ UNCHANGED <<request, pdu, sent>>

Next == Ask \/ Answer \/ Receive
Spec == Init /\ [][Next]_vars

-----------------------------------------------------------------------------
\* Properties.

\* Every octet is one, and the client has read a part of what was sent.
TypeOK ==
  /\ request \in Requests \cup {Idle}
  /\ pdu \in Seq(Octets) /\ (pdu = <<>> <=> request = Idle)
  /\ sent \in Seq(Answers)
  /\ buffer \in Seq(Octets) /\ buffer = UpTo(Stream, Len(buffer))

\* What the callers of the methods see to: a length of three octets, the most
\* that _encode_length writes, has room for all of it; controls and the filter
\* of a search are elements themselves; and the characters of an extensible
\* filter, which it counts, are octets.
LargestPdu == 65539
ReadableElements(d) == \A i \in DOMAIN Elements[d] : Elements[d][i] # Unreadable
Encodable(r) ==
  /\ Len(Build(r)) <= LargestPdu
  /\ r.kind \in {"extended", "search"} =>
       \A i \in DOMAIN r.controls : ReadableElements(r.controls[i])
  /\ r.kind = "search" => \A i \in DOMAIN r.filter : ReadableElements(r.filter[i])
  /\ r.kind = "extensibleFilter" => {r.attribute, r.rule, r.value} \subseteq Names

\* A server reads in each request exactly what the caller asked for, whatever
\* the lengths, as long as there is room for them; an AbandonRequest is left to
\* the next property.
RequestsDecode ==
  request \notin {Idle} /\ request.kind # "abandon" /\ Encodable(request) =>
    Elements[pdu] = <<Meant(request)>>

\* raw.py, build_abandon_request: "the enclosed MessageID names the operation to
\* abandon".
AbandonNamesTheSearch ==
  request.kind = "abandon" => Elements[pdu] = <<Meant(request)>>

\* The messages of which every octet has come.
Whole ==
  LET whole == {k \in 0..Len(sent) :
                  Len(Concat(Each(Wire, SubSeq(sent, 1, k)))) <= Len(buffer)}
  IN  SubSeq(sent, 1, Max(whole))
Begun == Len(buffer) - Len(Concat(Each(Wire, Whole)))

\* _split_messages and _last_complete_message find the whole messages, however
\* lengths are written and wherever the stream is cut; the first raises when
\* exactly one octet of a further message has come.
SplitIsExact ==
  /\ SplitMessages[buffer] =
       Result(IF Begun = 1 THEN "IndexError" ELSE "ok", Each(Wire, Whole))
  /\ LastCompleteMessage[buffer] = IF Whole = <<>> THEN <<>> ELSE Wire(Last(Whole))

\* What the parsed control says is what the server put into it.
SaysTheSame(c, parsed) ==
  /\ parsed.oid = c.oid
  /\ CASE c.holds = "octets" -> parsed.value = c.value
       [] c.holds = "cookie" -> ParsePagedCookie(parsed.value) = c.value
       [] c.holds = "sortCode" -> ParseSortResult(parsed.value) = c.value[1]
       [] c.holds = "entry" -> ParseSearchResultEntry(parsed.value) = c.value
AllSayTheSame(controls, parsed) ==
  /\ Len(controls) = Len(parsed)
  /\ \A i \in DOMAIN controls : SaysTheSame(controls[i], parsed[i])

\* The entries and the controls a search's caller is given are those of the whole
\* messages: none is lost, made up or read before its end has come.  So is the
\* code, -1 as long as no message has one, when the last message with a code is the
\* search's result.  (Where it is not, as with a notice behind the result, the
\* code is that message's, and not, as parse_search_response has it, "from the
\* SearchResultDone PDU".)
StreamIsReadBack ==
  LET coded == {i \in DOMAIN Whole : HasCode(Whole[i])}
      EntryIn(m) == IF m.kind = "entry" THEN <<m.attributes>> ELSE <<>>
  IN  /\ coded = {} => ParseSearchCode(buffer) = -1
      /\ coded # {} /\ Whole[Max(coded)].kind = "done" =>
           ParseSearchCode(buffer) = Whole[Max(coded)].code
      /\ ParseSearchEntries(buffer) = Concat(Each(EntryIn, Whole))
      /\ AllSayTheSame(Concat(Each(LAMBDA m : m.controls, Whole)),
                       ParseAllResponseControls(buffer))
      /\ AllSayTheSame(IF Whole = <<>> THEN <<>> ELSE Last(Whole).controls,
                       ParseResponseControls(buffer))

\* A single read that stops anywhere is never taken for another answer: the
\* parsers of one response give up, raise or return the code of the first
\* message; only where the read ends in or after the code's length and before
\* the code they return 0 for it.  A messageID is never anything but the first message's.
CodeReadOrRefused(r, m) ==
  r.state = "ok" =>
    \/ r.value = m.code
    \/ /\ r.value = 0
       /\ LET before == Len(Wire(m)) - Len(ControlsContents(m)) - Len(OpContents(m))
           IN  Len(buffer) \in before + 2..before + Len(Element(m.form, 10, <<>>))
CutAnswerIsNoOther ==
  sent # <<>> =>
    LET m == sent[1] IN
    /\ IF HasCode(m) THEN CodeReadOrRefused(ParseLdapResult(buffer), m)
       ELSE ParseLdapResult(buffer).state # "ok"
    /\ IF m.kind = "bind" THEN CodeReadOrRefused(ParseBindResponse(buffer), m)
       ELSE ParseBindResponse(buffer).state # "ok"
    /\ ParseMessageId(buffer).state = "ok" => ParseMessageId(buffer).value = m.id

\* bind.py, no_server_sasl_creds: "check serverSaslCreds is absent".  When a
\* BindResponse carries them, the parser has to find them.
ServerSaslCredsAreFound ==
  Whole # <<>> /\ sent[1].kind = "bind" => ServerSaslCreds(buffer) = sent[1].creds

=============================================================================
