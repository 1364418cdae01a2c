----------------------------- MODULE SuiteTable -----------------------------
(***************************************************************************)
(* The registry after suites.discover: every assertion a run can execute,  *)
(* in the order its module is imported (pkgutil sorts by name, a package   *)
(* imports its own modules in the order its __init__ lists them).  The     *)
(* class B assertions, which have no observable check, are left out.       *)
(***************************************************************************)
EXTENDS Rfc4511Scripts, SchemaScripts, ExtensionScripts

Packages ==
  <<paged_results_accepted, paged_results_cookie_exhausts, paged_control_advertised,
    sort_control_returns_sorted, sort_unknown_attribute, sort_controls_advertised,
    password_modify_accepted, password_modify_wrong_old_passwd,
    password_modify_anonymous_rejected, password_modify_advertised,
    who_am_i, whoami_advertised>>

Rfc3045To4370 ==
  <<vendor_name_single_value, vendor_version_single_value, collective_schema_published,
    plus_returns_operational, star_plus_returns_both, plus_returns_all_operational,
    component_filter_match_advertised, rdn_match_advertised,
    authzid_controls_advertised, authzid_response_on_bind,
    authzid_no_response_on_failed_bind,
    add_language_tagged_values, search_filter_language_tag,
    language_range_matches_prefix, lang_range_matches_all,
    language_range_rejected_on_add, language_options_advertised,
    matched_values_advertised, matched_values_filter_returns_subset,
    matched_values_critical_on_compare, matched_values_noncritical_on_compare,
    cancel_advertised, cancel_unknown_message_id,
    proxy_authz_advertised, proxy_authz_requires_criticality,
    proxy_authz_identity_applies>>

Rfc4511 ==
  <<abandon_unknown_message_id, abandon_in_progress,
    add_valid, add_duplicate, add_missing_parent, add_schema_violation, add_matched_dn,
    anonymous_bind, simple_bind_valid, simple_bind_invalid, rebind,
    empty_password_rejected, no_server_sasl_creds, bad_protocol_version,
    malformed_pdu_disconnects, empty_sasl_mechanism_rejected,
    unsupported_auth_choice_rejected, bind_does_not_deref_alias,
    compare_true, compare_false, compare_missing_attribute, compare_no_such_object,
    unknown_critical_control, unknown_non_critical_control,
    delete_leaf, delete_nonexistent, delete_with_children, delete_matched_dn,
    unrecognized_extended, rename, rename_to_existing, rename_with_new_superior,
    modify_replace, modify_add_value, modify_nonexistent_entry,
    search_base_scope, search_one_level, search_subtree_filter, search_no_such_object,
    search_matched_dn, unbind_returns_without_error,
    alias_dereferenced_always, referral_returned,
    response_echoes_message_id, message_id_zero_handled, indefinite_length_rejected,
    boolean_encoding_handled, malformed_filter_error, truncated_pdu_handled,
    ignore_trailing_sequence>>

Rfc4512To4519 ==
  <<root_dse_accessible, subschema_has_object_classes, subschema_has_attribute_types,
    entries_have_object_class, must_attribute_enforced, attribute_syntax_validated,
    supported_ldap_version, object_class_cannot_be_removed,
    operational_attribute_protected, operational_attrs_maintained,
    initial_session_anonymous, pre_bind_ops_treated_as_anonymous,
    starttls_succeeds, starttls_rejected_when_active, capabilities_refreshed_after_tls,
    authorization_resets_after_tls, simple_bind_over_starttls,
    simple_dn_parsing, dn_case_preservation, dn_attribute_name_case_insensitive,
    dn_value_matching_rule,
    and_filter, or_filter, not_filter, equality_filter, substring_initial,
    substring_any, present_filter, extensible_match, substring_final,
    greater_or_equal_filter, less_or_equal_filter, approx_match_filter,
    ldap_syntaxes_present, matching_rules_present, case_ignore_match, integer_match,
    generalized_time_match, case_exact_match,
    case_insensitive_match, case_insensitive_space_handling,
    inet_org_person_advertised, organizational_unit_advertised,
    domain_component_advertised>>

Rfc4525To6171 ==
  <<increment_feature_advertised, increment_adds_to_value,
    increment_multiple_values_error, increment_non_integer_error,
    absolute_true_filter, absolute_false_filter, true_false_filters_advertised,
    pre_read_on_modify, post_read_on_add, read_entry_controls_advertised,
    assertion_control_advertised, assertion_true_proceeds, assertion_false_returns_122,
    assertion_delete_true, assertion_search_false,
    at_objectclass_returns_attrs, unknown_objectclass_treated_as_unknown_attr,
    objectclass_feature_advertised,
    entry_uuid_present, entry_uuid_single_value_read_only, entry_uuid_valid_format,
    entry_uuid_immutable, entry_uuid_searchable, turn_advertised,
    sync_request_advertised, sync_refresh_only_returns_cookie,
    sync_incremental_returns_change,
    entry_dn_present, entry_dn_equals_dn, entry_dn_single_value_read_only,
    entry_dn_searchable, transactions_advertised, dont_use_copy_advertised>>

discover ==
  Packages \o Rfc3045To4370 \o Rfc4511 \o Rfc4512To4519 \o Rfc4525To6171 \o _register
=============================================================================
