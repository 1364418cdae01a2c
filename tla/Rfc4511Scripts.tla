---------------------------- MODULE Rfc4511Scripts ----------------------------
(***************************************************************************)
(* The assertions of suites/rfc4511, rfc4511_referrals.py, rfc4511_wire.py *)
(* and rfc4513.py as scripts, in the order of the files.  The comment of a *)
(* group says what its members share.                                      *)
(***************************************************************************)
EXTENDS Steps

\* The reply of an own connection that answers anything at all.
SomeReply == Codes \ {-1}

-----------------------------------------------------------------------------
\* abandon.py: one RawSession, closed in a finally clause; the follow-up
\* search only has to bring back some bytes.

AbandonThenSearch(id, before) ==
  Plain(id,
    <<Check(Own("admin", Bind("admin")), {0}, "blocked")>> \o before \o
    <<Do(Own("admin", Send({-1}))),
      Check(Own("admin", Search({"people"})), SomeReply, "fail")>>)
abandon_unknown_message_id == AbandonThenSearch("4511.4.11.2", <<>>)
abandon_in_progress ==
  AbandonThenSearch("4511.4.11.1", <<Do(Own("admin", Search({"people"})))>>)

-----------------------------------------------------------------------------
\* add.py: no finally clause; the entry is wiped after the verdict is formed.

add_valid ==
  Mutating("4511.4.7.1",
    <<BindAdmin, Note(Add("test-add-1", {0}), {0}), Cleanup("test-add-1")>>)
add_duplicate ==
  Mutating("4511.4.7.2",
    <<BindAdmin, Do(Add("test-add-2", {0})), Note(Add("test-add-2", {0}), {68}),
      Cleanup("test-add-2")>>)
add_missing_parent ==
  Mutating("4511.4.7.3", <<BindAdmin, Check(Add("orphan", {0}), {32}, "fail")>>)
add_schema_violation ==
  Mutating("4511.4.7.4",
    <<BindAdmin, Note(Add("test-add-4", {65}), {65}), Cleanup("test-add-4")>>)
\* The same request as add_missing_parent, from an assertion that does not
\* declare that it mutates.
add_matched_dn ==
  Plain("4511.4.7.5", <<BindAdmin, Check(Add("orphan", {0}), {32}, "fail")>>)

-----------------------------------------------------------------------------
\* bind.py: the binds on the session change the identity of every later
\* assertion; the others use a connection of their own.

anonymous_bind == Plain("4511.4.2.1", <<Check(Bind("anonymous"), {0}, "fail")>>)
simple_bind_valid == Plain("4511.4.2.2", <<Check(Bind("alice"), {0}, "fail")>>)
simple_bind_invalid == Plain("4511.4.2.3", <<Check(BadBind({49}), {49}, "fail")>>)
rebind ==
  Assertion("4511.4.2.6", FALSE, {"4511.4.2.2"},
    <<Check(Bind("alice"), {0}, "blocked"), Check(Bind("bob"), {0}, "fail")>>)
empty_password_rejected ==
  Plain("4511.4.2.4",
    <<Check(Own("anonymous", BadBind({-1, 49, 53})), Refusals, "fail")>>)
no_server_sasl_creds ==
  Assertion("4511.4.2.5", FALSE, {"4511.4.2.2"},
    <<Check(Own("alice", Bind("alice")), {0}, "blocked"),
      Check(Own("alice", Send({0})), {0}, "fail")>>)
bad_protocol_version ==
  Plain("4511.4.2.7", <<Check(Own("anonymous", BadBind({2})), {2}, "fail")>>)
malformed_pdu_disconnects ==
  Plain("4511.4.2.8", <<Check(Own("anonymous", Send({-1})), {-1}, "fail")>>)
empty_sasl_mechanism_rejected ==
  Plain("4511.4.2.9", <<Check(Own("anonymous", BadBind({7})), {7}, "fail")>>)
unsupported_auth_choice_rejected ==
  Plain("4511.4.2.10", <<Check(Own("anonymous", BadBind({7})), {7}, "fail")>>)
bind_does_not_deref_alias ==
  Plain("4511.4.2.6.2", <<Check(BadBind({32, 49, 53}), Refusals, "fail")>>)

-----------------------------------------------------------------------------
\* compare.py: only the first one binds.

compare_true ==
  Plain("4511.4.10.1", <<BindAdmin, Check(Read({"alice"}, {6}), {6}, "fail")>>)
compare_false == Plain("4511.4.10.2", <<Check(Read({"alice"}, {5}), {5}, "fail")>>)
compare_missing_attribute ==
  Plain("4511.4.10.3", <<Check(Read({"alice"}, {16}), {16}, "fail")>>)
compare_no_such_object ==
  Plain("4511.4.10.4", <<Check(Read({"nobody"}, {6}), {32}, "fail")>>)

\* controls.py, extended.py
unknown_critical_control ==
  Plain("4511.4.1.1", <<Check(Read({"root"}, {12}), {12}, "fail")>>)
unknown_non_critical_control ==
  Plain("4511.4.1.2", <<Check(Search({"root"}), {0}, "fail")>>)
unrecognized_extended == Plain("4511.4.12.1", <<Check(Send({2}), {2}, "fail")>>)

-----------------------------------------------------------------------------
\* delete.py: delete_nonexistent and delete_matched_dn send a delete without
\* declaring that they mutate, the second one under whatever identity the
\* session has.

delete_leaf ==
  Mutating("4511.4.8.1",
    <<BindAdmin, Do(Add("test-del-1", {0})),
      Check(Delete("test-del-1", {0}), {0}, "fail")>>)
delete_nonexistent ==
  Plain("4511.4.8.2", <<BindAdmin, Check(Delete("nobody", {0}), {32}, "fail")>>)
delete_with_children ==
  Mutating("4511.4.8.3",
    <<BindAdmin, Do(Add("test-del-3", {0})), Do(Add("child", {0})),
      Note(Delete("test-del-3", {0}), {66}),
      Cleanup("child"), Cleanup("test-del-3")>>)
delete_matched_dn ==
  Plain("4511.4.8.4", <<Check(Delete("nobody", {0}), {32}, "fail")>>)

-----------------------------------------------------------------------------
\* moddn.py: rename wipes the new name only.

rename ==
  Mutating("4511.4.9.1",
    <<BindAdmin, Do(Add("test-moddn-1", {0})),
      Note(Rename("test-moddn-1", "test-moddn-1-renamed"), {0}),
      Cleanup("test-moddn-1-renamed")>>)
rename_to_existing ==
  Mutating("4511.4.9.2",
    <<BindAdmin, Do(Add("target-moddn", {0})), Do(Add("source-moddn", {0})),
      Note(Rename("source-moddn", "target-moddn"), {68}),
      Cleanup("target-moddn"), Cleanup("source-moddn")>>)
rename_with_new_superior ==
  Mutating("4511.4.9.3",
    <<BindAdmin, Do(Add("test-move", {0})),
      Note(Rename("test-move", "test-move,root"), {0}),
      Cleanup("test-move,root"), Cleanup("test-move")>>)

\* modify.py
ModifyOwnEntry(id, e) ==
  Mutating(id, <<BindAdmin, Do(Add(e, {0})), Note(Modify(e, {0}), {0}), Cleanup(e)>>)
modify_replace == ModifyOwnEntry("4511.4.6.1", "test-mod-1")
modify_add_value == ModifyOwnEntry("4511.4.6.2", "test-mod-2")
modify_nonexistent_entry ==
  Plain("4511.4.6.3", <<BindAdmin, Check(Modify("nobody", {0}), {32}, "fail")>>)

-----------------------------------------------------------------------------
\* search.py: under whatever identity the session has.

SearchFinds(id, on) == Plain(id, <<Check(Search(on), {0}, "fail")>>)
SearchMisses(id, e) == Plain(id, <<Check(Search({e}), {32}, "fail")>>)
search_base_scope == SearchFinds("4511.4.5.1", {"root"})
search_one_level == SearchFinds("4511.4.5.2", {"alice", "bob"})
search_subtree_filter == SearchFinds("4511.4.5.3", {"alice"})
search_no_such_object == SearchMisses("4511.4.5.4", "nonexistent")
search_matched_dn == SearchMisses("4511.4.5.5", "nonexistent")

\* rfc4511_referrals.py
alias_dereferenced_always ==
  Plain("4511.4.5.6",
    <<BindAdmin, Note(Search({"alice-alias"}), {0}), Note(Search({"alice"}), {0})>>)
referral_returned == Plain("4511.4.5.7", <<Check(Search({"root"}), {0}, "fail")>>)

\* unbind.py: closes the connection every other assertion uses.
unbind_returns_without_error == Plain("4511.4.3.1", <<Do(Unbind)>>)

-----------------------------------------------------------------------------
\* rfc4511_wire.py: own sockets; where a crash is all that is looked for,
\* every answer and none passes.

response_echoes_message_id ==
  Plain("4511.4.1.1.1", <<Check(Own("anonymous", Send({0})), {0}, "fail")>>)
AnyAnswer(id) == Plain(id, <<Do(Own("anonymous", Send(Codes)))>>)
message_id_zero_handled == AnyAnswer("4511.4.1.1.2")
indefinite_length_rejected == AnyAnswer("4511.5.1.1")
boolean_encoding_handled == AnyAnswer("4511.5.1.3")
truncated_pdu_handled == AnyAnswer("4511.5.1.4")
malformed_filter_error ==
  Plain("4511.4.5.1.8",
    <<Check(Own("anonymous", Send({-1, 2, 18})), Refusals, "fail")>>)
ignore_trailing_sequence ==
  Plain("4511.4.1.1.4", <<Check(Own("admin", Bind("admin")), {0}, "fail")>>)

-----------------------------------------------------------------------------
\* rfc4513.py: taken to run before any bind.

initial_session_anonymous ==
  Plain("4513.4.1.1", <<Check(Search({"people"}), {0}, "fail")>>)
pre_bind_ops_treated_as_anonymous ==
  Plain("4513.4.1.2",
    <<Check(Search({"people"}), {0}, "fail"), Check(Bind("admin"), {0}, "fail"),
      Check(Search({"people"}), {0}, "fail")>>)

\* rfc4513_security.py: each on a fresh session, which nothing closes.
StartTls == Own("anonymous", Send({0}))
starttls_succeeds == Plain("4513.3.1.1", <<Check(StartTls, {0}, "fail")>>)
starttls_rejected_when_active ==
  Plain("4513.3.1.1-2",
    <<Check(StartTls, {0}, "not_applicable"),
      Check(Own("anonymous", Send({-1})), Refusals, "fail")>>)
capabilities_refreshed_after_tls ==
  Plain("4513.3.1.5",
    <<Do(Own("anonymous", RootDse)), Check(StartTls, {0}, "not_applicable"),
      Check(Own("anonymous", Advertised), {0}, "not_applicable")>>)
authorization_resets_after_tls ==
  Plain("4513.3.2",
    <<Check(Own("admin", Bind("admin")), {0}, "fail"),
      Check(StartTls, {0}, "not_applicable"),
      Check(Own("anonymous", Search({"people"})), {0}, "fail")>>)
simple_bind_over_starttls ==
  Plain("4513.2.2",
    <<Check(StartTls, {0}, "not_applicable"),
      Check(Own("admin", Bind("admin")), {0}, "fail")>>)
=============================================================================
