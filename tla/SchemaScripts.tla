---------------------------- MODULE SchemaScripts ----------------------------
(***************************************************************************)
(* The assertions about the data model, names, filters and the published   *)
(* schema: rfc4512.py, 4514, 4515, 4517, 4518, 4519, 3671, 3673, 3687 and  *)
(* the generated ones of schema.py.                                        *)
(***************************************************************************)
EXTENDS Steps

-----------------------------------------------------------------------------
\* Reading the published schema: as admin, first the subschema's DN from the
\* root DSE (_helpers.subschema_dn), then the attribute; v is returned when
\* either is missing.  what is {0} where every server publishes it.

subschema_dn(v) == Check(RootDse, {0}, v)
Subschema(what, v) == <<BindAdmin, subschema_dn(v), Check(Read({}, what), {0}, v)>>

subschema_has_object_classes == Plain("4512.4.2", Subschema({0}, "fail"))
subschema_has_attribute_types == Plain("4512.4.3", Subschema({0}, "fail"))
ldap_syntaxes_present == Plain("4517.4.1", Subschema({0}, "fail"))
matching_rules_present == Plain("4517.4.2", Subschema({0}, "fail"))

\* rfc4519.py
_has_advertised == Subschema({0}, "fail")
inet_org_person_advertised == Plain("4519.2.1", _has_advertised)
organizational_unit_advertised == Plain("4519.2.2", _has_advertised)
domain_component_advertised == Plain("4519.2.3", _has_advertised)

\* rfc3687.py
_subschema_matching_rules == Subschema({0, 16}, "not_applicable")
component_filter_match_advertised == Plain("3687.5.1", _subschema_matching_rules)
rdn_match_advertised == Plain("3687.3.2.2.1", _subschema_matching_rules)

\* schema.py and rfc3671.py: all elements present, none (16), or some (121),
\* which fails.
_check_schema_presence ==
  <<BindAdmin, subschema_dn("not_applicable"),
    Step("call", Read({}, {0, 16}),
         [c \in Codes |-> CASE c = 0 -> "go" [] c = 121 -> "fail"
                            [] OTHER -> "not_applicable"],
         TRUE, <<>>)>>
_SCHEMA_ELEMENTS ==
  <<"2079.1", "2247.1", "2307.1", "2713.1", "2714.1", "2739.1", "2798.1", "2926.1",
    "2985.1", "3112.1", "3703.1", "4104.1", "4403.1", "4523.1", "4524.1", "4876.1",
    "7612.1", "8284.1">>
_register == [i \in DOMAIN _SCHEMA_ELEMENTS |->
                Plain(_SCHEMA_ELEMENTS[i], _check_schema_presence)]
collective_schema_published == Plain("3671.2.1", _check_schema_presence)

-----------------------------------------------------------------------------
\* rfc4512.py

root_dse_accessible == Plain("4512.4.1", <<Check(RootDse, {0}, "fail")>>)
entries_have_object_class ==
  Plain("4512.4.4", <<Check(Search({"root", "alice", "bob"}), {0}, "fail")>>)
\* An entry that must be refused, for any reason at all; wiped before the
\* attempt, and after it only when the server took it.
must_attribute_enforced ==
  Mutating("4512.4.5",
    <<BindAdmin, Cleanup("musttest"),
      CheckUndo(Add("musttest", {65}), Refusals, "fail", <<Cleanup("musttest")>>)>>)
attribute_syntax_validated ==
  Mutating("4512.4.6",
    <<BindAdmin, Cleanup("syntaxtest"),
      CheckUndo(Own("admin", Add("syntaxtest", {21})), Refusals, "fail",
                <<Cleanup("syntaxtest")>>)>>)
supported_ldap_version == Plain("4512.5.1.1", <<Check(RootDse, {0}, "fail")>>)
\* Illegal changes to the seed entry alice, not undone if the server accepts.
RefusedOnAlice(id, code) ==
  Mutating(id, <<BindAdmin, Check(Modify("alice", {code}), Refusals, "fail")>>)
object_class_cannot_be_removed == RefusedOnAlice("4512.3.3.1", 69)
operational_attribute_protected == RefusedOnAlice("4512.3.4.1", 19)
operational_attrs_maintained ==
  Plain("4512.3.2", <<BindAdmin, Check(Read({"alice"}, {0, 16}), {0}, "not_applicable")>>)

-----------------------------------------------------------------------------
\* One search or lookup under whatever identity the session has.

Finds(id, on) == Plain(id, <<Check(Search(on), {0}, "fail")>>)

\* rfc4514.py
simple_dn_parsing == Finds("4514.2.1", {"alice"})
dn_case_preservation == Finds("4514.2.2", {"alice"})
dn_attribute_name_case_insensitive == Finds("4514.2.3", {"alice"})
dn_value_matching_rule == Finds("4514.2.4", {"alice"})

\* rfc4515.py
and_filter == Finds("4515.3.1", {"alice"})
or_filter == Finds("4515.3.2", {"alice", "bob"})
\* What is looked for is the absence of alice: an empty result is accepted.
not_filter == Finds("4515.3.3", {"root"})
equality_filter == Finds("4515.3.4", {"alice"})
substring_initial == Finds("4515.3.5", {"alice"})
substring_any == Finds("4515.3.6", {"alice"})
present_filter == Finds("4515.3.7", {"alice", "bob"})
extensible_match == Finds("4515.3.8", {"alice"})
substring_final == Finds("4515.3.9", {"alice"})
greater_or_equal_filter == Finds("4515.3.10", {"root"})
less_or_equal_filter == Finds("4515.3.11", {"root"})
approx_match_filter == Finds("4515.3.12", {"alice"})

\* rfc4517.py, rfc4518.py
case_ignore_match ==
  Plain("4517.4.3", <<BindAdmin, Check(Search({"alice"}), {0}, "fail")>>)
integer_match ==
  Mutating("4517.4.4",
    <<BindAdmin, Cleanup("intmatch"), Check(Add("intmatch", {0}), {0}, "fail"),
      Try(<<Cleanup("intmatch")>>), Check(Search({"intmatch"}), {0}, "fail")>>)
generalized_time_match == Finds("4517.4.5", {"alice", "bob"})
\* Two own connections; the second lookup must find nothing, or bring no answer.
case_exact_match ==
  Plain("4517.4.6",
    <<Check(Own("admin", Search({"alice"})), {0}, "fail"),
      Check(Own("admin", Read({"alice"}, {16})), Refusals, "fail")>>)
case_insensitive_match == Finds("4518.2.1", {"alice"})
case_insensitive_space_handling == Finds("4518.2.2", {"alice"})

\* rfc3673.py
plus_returns_operational ==
  Plain("3673.2.1", <<BindAdmin, Check(Search({"alice"}), {0}, "fail")>>)
star_plus_returns_both == Finds("3673.2.2", {"alice"})
plus_returns_all_operational ==
  Plain("3673.2.1.1", <<BindAdmin, Check(Search({"alice"}), {0}, "fail")>>)
=============================================================================
