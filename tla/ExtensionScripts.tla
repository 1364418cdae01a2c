--------------------------- MODULE ExtensionScripts ---------------------------
(***************************************************************************)
(* The assertions about controls, extended operations and other additions  *)
(* to the core: rfc2696.py, 2891, 3045, 3062, 3829, 3866, 3876, 3909,      *)
(* 4370, 4525, 4526, 4527, 4528, 4529, 4530, 4531, 4532, 4533, 5020, 5805  *)
(* and 6171.                                                               *)
(***************************************************************************)
EXTENDS Steps

-----------------------------------------------------------------------------
\* A root DSE that names the OIDs of the extension, else not applicable.

Supported == Check(Advertised, {0}, "not_applicable")
WhenAdvertised(id) == Plain(id, <<Supported>>)
paged_control_advertised == WhenAdvertised("2696.3.3")
sort_controls_advertised == WhenAdvertised("2891.2.2")
password_modify_advertised == WhenAdvertised("3062.3.2")
authzid_controls_advertised == WhenAdvertised("3829.2.1")
language_options_advertised == WhenAdvertised("3866.4.1")
matched_values_advertised == WhenAdvertised("3876.7.1")
cancel_advertised == WhenAdvertised("3909.3.1")
proxy_authz_advertised == WhenAdvertised("4370.2.1")
increment_feature_advertised == WhenAdvertised("4525.2.1")
true_false_filters_advertised == WhenAdvertised("4526.2.3")
read_entry_controls_advertised == WhenAdvertised("4527.3.3")
assertion_control_advertised == WhenAdvertised("4528.2.1")
objectclass_feature_advertised == WhenAdvertised("4529.3.3")
turn_advertised == WhenAdvertised("4531.2.1")
whoami_advertised == WhenAdvertised("4532.3.2")
sync_request_advertised == WhenAdvertised("4533.2.1")
transactions_advertised == WhenAdvertised("5805.2.1")
dont_use_copy_advertised == WhenAdvertised("6171.3.1")

-----------------------------------------------------------------------------
\* What most assertions that write share: bind, wipe what an earlier run may
\* have left, create the entry, and wipe it in a finally clause.

Scratch(e) == <<BindAdmin, Cleanup(e), Do(Add(e, {0})), Try(<<Cleanup(e)>>)>>
CheckedScratch(e) ==
  <<BindAdmin, Cleanup(e), Check(Add(e, {0}), {0}, "fail"), Try(<<Cleanup(e)>>)>>

\* A request over a connection of its own, bound as administrator.
Raw(req, want, v) == Check(Own("admin", req), want, v)
RawSearch(id, on) == Plain(id, <<Raw(Search(on), {0}, "fail")>>)
AdminSearch(id, on) == Plain(id, <<BindAdmin, Check(Search(on), {0}, "fail")>>)

\* rfc2696.py; paging stops after ten pages of one entry each.
paged_results_accepted == Plain("2696.2.1", <<Check(Search({"root"}), {0}, "fail")>>)
paged_results_cookie_exhausts == RawSearch("2696.2.2", {"people", "alice", "bob"})

\* rfc2891.py
sort_control_returns_sorted == AdminSearch("2891.2.1", {"alice", "bob"})
sort_unknown_attribute ==
  Plain("2891.2.3", <<Supported, Raw(Read({}, {16}), {16}, "fail")>>)

\* rfc3045.py: a modify of the root DSE must be refused, for any reason.
_check_single_value_no_user_mod(id) ==
  Mutating(id, <<Supported, Raw(Send({19, 53}), Refusals, "fail")>>)
vendor_name_single_value == _check_single_value_no_user_mod("3045.2.1")
vendor_version_single_value == _check_single_value_no_user_mod("3045.2.2")

-----------------------------------------------------------------------------
\* rfc3062.py: the passwords of the seed entry bob; none of the three declares
\* that it mutates, and the first returns without restoring the password when
\* the bind with the new one fails.

SetOrSkip ==
  Step("call", SetPassword("bob", {0, 13}),
       [c \in Codes |-> CASE c = 0 -> "go" [] c = 13 -> "not_applicable"
                          [] OTHER -> "fail"],
       TRUE, <<>>)
password_modify_accepted ==
  Plain("3062.2.1",
    <<BindAdmin, SetOrSkip, Check(Bind("bob-new"), {0}, "fail"),
      BindAdmin, Do(RestorePassword("bob"))>>)
PutBack == <<BindAdmin, Do(RestorePassword("bob"))>>
password_modify_wrong_old_passwd ==
  Plain("3062.3.3",
    <<Do(Bind("bob")),
      CheckUndo(SetPassword("bob", {49, 50, 53}), Refusals, "fail", PutBack)>>)
password_modify_anonymous_rejected ==
  Plain("3062.3.4",
    <<Check(Bind("anonymous"), {0}, "pass"),
      CheckUndo(SetPassword("bob", {49, 50, 53}), Refusals, "fail", PutBack)>>)

\* rfc4532.py: two own connections.
who_am_i ==
  Plain("4532.1.1",
    <<Do(Own("alice", Bind("alice"))), Check(Own("alice", Send({0})), {0}, "fail"),
      Check(Own("anonymous", Send({0})), {0}, "fail")>>)

-----------------------------------------------------------------------------
\* rfc3829.py; 16 is a bind response without the control.

authzid_response_on_bind ==
  Mutating("3829.4.1",
    <<Step("call", Own("admin", [Bind("admin") EXCEPT !.codes = {0, 16}]),
           [c \in Codes |-> CASE c = 0 -> "go" [] c = 16 -> "not_applicable"
                              [] OTHER -> "fail"],
           TRUE, <<>>)>>)
authzid_no_response_on_failed_bind ==
  Plain("3829.4.2", <<Check(Own("anonymous", BadBind({49})), Refusals, "fail")>>)

\* rfc3876.py
matched_values_filter_returns_subset ==
  Mutating("3876.2.1",
    Scratch("mv-test") \o <<Raw(Read({"mv-test"}, {0, 12}), {0}, "not_applicable")>>)
matched_values_critical_on_compare ==
  Plain("3876.2.2", <<Raw(Read({"alice"}, {12}), {12}, "fail")>>)
matched_values_noncritical_on_compare ==
  Plain("3876.2.3", <<Raw(Read({"alice"}, {5, 6}), {5, 6}, "fail")>>)

\* rfc3909.py
cancel_unknown_message_id ==
  Plain("3909.2.1", <<Supported, Raw(Send({119}), {119}, "fail")>>)

\* rfc3866.py: values with a language tag, read back.  Code 16 is an entry that
\* lost them, 121 one that came back with some.
Tagged(id, e, seen, v) ==
  Mutating(id, Scratch(e) \o <<Check(Read({e}, seen), {0}, v)>>)
add_language_tagged_values == Tagged("3866.2.5.1", "lang-test", {0}, "fail")
search_filter_language_tag == Tagged("3866.2.2.1", "lang2-test", {0, 16}, "not_applicable")
language_range_matches_prefix ==
  Mutating("3866.3.1.1",
    Scratch("lang3-test") \o
    <<Step("call", Read({"lang3-test"}, {0, 16}),
           [c \in Codes |-> CASE c = 0 -> "go" [] c = 121 -> "fail"
                              [] OTHER -> "not_applicable"],
           TRUE, <<>>)>>)
lang_range_matches_all == Tagged("3866.3.1.2", "lang4-test", {0, 16}, "not_applicable")
language_range_rejected_on_add ==
  Mutating("3866.3.3",
    <<BindAdmin, Cleanup("lang5-test"),
      CheckUndo(Add("lang5-test", {21}), Refusals, "fail", <<Cleanup("lang5-test")>>)>>)

-----------------------------------------------------------------------------
\* rfc4370.py
proxy_authz_requires_criticality ==
  Plain("4370.3.1", <<Supported, BindAdmin, Check(Read({}, {2}), {2}, "fail")>>)
\* 123 of the code, authorizationDenied, passes as 80 does here.
proxy_authz_identity_applies ==
  Plain("4370.3.2", <<Supported, BindAdmin, Raw(Send({0, 80}), {0, 80}, "fail")>>)

\* rfc4525.py: the increment over an own connection, then a look at the value.
increment_adds_to_value ==
  Mutating("4525.2.2",
    CheckedScratch("incr-test") \o
    <<Raw(Modify("incr-test", {0}), {0}, "fail"),
      Check(Search({"incr-test"}), {0}, "fail")>>)
increment_multiple_values_error ==
  Mutating("4525.2.3",
    CheckedScratch("incr-multi") \o <<Raw(Modify("incr-multi", {2}), {2}, "fail")>>)
increment_non_integer_error ==
  Mutating("4525.2.4",
    CheckedScratch("incr-str") \o
    <<Raw(Modify("incr-str", {19, 53, 65}), {19, 53, 65}, "fail")>>)

\* rfc4526.py, rfc4529.py
absolute_true_filter == RawSearch("4526.2.1", {"people", "alice", "bob"})
absolute_false_filter == RawSearch("4526.2.2", {})
at_objectclass_returns_attrs == RawSearch("4529.3.1", {"alice"})
unknown_objectclass_treated_as_unknown_attr == RawSearch("4529.3.2", {"alice"})

\* rfc4527.py: a server without the control (12, or
\* no control in the answer) is not concerned.
pre_read_on_modify ==
  Mutating("4527.3.1.1",
    Scratch("preread-test") \o
    <<Raw(Modify("preread-test", {0, 12}), {0}, "not_applicable"),
      Check(Search({"preread-test"}), {0}, "not_applicable")>>)
post_read_on_add ==
  Mutating("4527.3.2.1",
    <<BindAdmin, Cleanup("postread-test"), Try(<<Cleanup("postread-test")>>),
      Raw(Add("postread-test", {0, 12}), {0}, "not_applicable"),
      Check(Search({"postread-test"}), {0}, "not_applicable")>>)

\* rfc4528.py: the assertion control on a modify, on one that must fail, on a
\* delete, on a search.
OnScratch(id, e, req, want) ==
  Mutating(id, Scratch(e) \o <<Supported, Raw(req, want, "fail")>>)
assertion_true_proceeds ==
  OnScratch("4528.3.1", "assert-true", Modify("assert-true", {0}), {0})
assertion_false_returns_122 ==
  OnScratch("4528.3.2", "assert-false", Modify("assert-false", {122}), {122})
assertion_delete_true ==
  OnScratch("4528.3.3", "assert-del", Delete("assert-del", {0}), {0})
assertion_search_false ==
  Plain("4528.3.4", <<Supported, Raw(Read({"alice"}, {122}), {122}, "fail")>>)

-----------------------------------------------------------------------------
\* rfc4530.py and rfc5020.py: operational attributes that the server protects.

Protected(id, e) ==
  Mutating(id,
    Scratch(e) \o
    <<Check(Search({e}), {0}, "fail"), Check(Modify(e, {19}), Refusals, "fail")>>)
entry_uuid_present == AdminSearch("4530.2.4.1", {"alice"})
entry_uuid_single_value_read_only == Protected("4530.2.4.2", "uuid-test")
entry_uuid_valid_format == AdminSearch("4530.2.1.1", {"alice"})
entry_uuid_immutable ==
  Plain("4530.2.4.3",
    <<BindAdmin, Check(Search({"alice"}), {0}, "fail"),
      Check(Search({"alice"}), {0}, "fail")>>)
entry_uuid_searchable ==
  Plain("4530.2.2.1",
    <<BindAdmin, Check(Search({"alice"}), {0}, "fail"),
      Check(Search({"alice"}), {0}, "fail")>>)
entry_dn_present == AdminSearch("5020.2.1", {"alice"})
entry_dn_equals_dn == AdminSearch("5020.2.2", {"alice"})
entry_dn_single_value_read_only == Protected("5020.2.3", "edn-test")
entry_dn_searchable == AdminSearch("5020.2.4", {"alice"})

\* rfc4533.py: a content synchronization, and one that resumes from the cookie
\* of an earlier one after an entry was added.
sync_refresh_only_returns_cookie ==
  Plain("4533.3.1", <<Supported, Raw(Search({"people"}), {0}, "fail")>>)
sync_incremental_returns_change ==
  Mutating("4533.3.2",
    <<Supported, BindAdmin, Cleanup("sync-new"),
      Raw(Search({"people"}), {0}, "fail"), Try(<<Cleanup("sync-new")>>),
      Raw(Add("sync-new", {0}), {0}, "not_applicable"),
      Raw(Search({"sync-new"}), {0}, "fail")>>)
=============================================================================
