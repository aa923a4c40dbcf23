---------------------------- MODULE ClientTests -----------------------------
(* The tests of storage/s3/client_builder.rs and storage/mod.rs as cases of       *)
(* Storage: the client each of them configures and what it asserts of the result. *)
(* Files stands for the repository's test_data directory.                         *)
EXTENDS Storage, TLC

TestFiles ==
    ("config" :> (("default" :> [keys |-> None, region |-> "us-west-1"])
                  @@ ("aws" :> [keys |-> None, region |-> "ap-northeast-1"])))
    @@ ("credentials" :> (("default" :> [keys |-> "default keys", region |-> None])
                          @@ ("aws" :> [keys |-> "aws keys", region |-> None])))
    @@ ("config with keys" :> (("default" :> [keys |-> None, region |-> "us-west-2"])
                               @@ ("creds-in-config" :> [keys |-> "config keys", region |-> "eu-central-1"])))
    @@ ("credentials beside it" :> ("default" :> [keys |-> "other keys", region |-> None]))

NoTimeouts == [t \in Timeouts |-> 0]
AllTimeouts == [NoTimeouts EXCEPT !["operation"] = 1000, !["operation_attempt"] = 2000,
                                  !["connect"] = 3000, !["read"] = 4000]

Client(credential, profile, config, credentials, region) ==
    [ credential |-> credential, profile |-> profile, config_file |-> config,
      credentials_file |-> credentials, region |-> region, max_attempts |-> 10,
      initial_backoff |-> 100, timeouts |-> NoTimeouts ]
AccessKeys(region) == Client("Credentials", "default", None, None, region)
profile_client_config(config, credentials, profile, region) ==
    [Client("Profile", profile, config, credentials, region) EXCEPT !.max_attempts = 1]

Retry(attempts, backoff) == [max_attempts |-> attempts, initial_backoff |-> backoff]
Row(c, expected) ==
    [client |-> c, rate |-> NoRate, batch |-> 1, express |-> FALSE, expected |-> expected]

create_client_from_credentials ==
    Row(AccessKeys("my-region"),
        [region |-> {"my-region"}, retry |-> Retry(10, 100), timeouts |-> <<>>])
create_client_from_credentials_with_custom_timeouts ==
    Row([AccessKeys(None) EXCEPT !.max_attempts = 5, !.initial_backoff = 200, !.timeouts = AllTimeouts],
        [retry |-> Retry(5, 200), timeouts |-> AllTimeouts])
create_client_from_credentials_with_default_region ==
    Row([AccessKeys(None) EXCEPT !.timeouts = AllTimeouts],
        [retry |-> Retry(10, 100), timeouts |-> AllTimeouts])
create_client_from_custom_profile ==
    Row(Client("Profile", "aws", "config", "credentials", "my-region"),
        [region |-> {"my-region"}, retry |-> Retry(10, 100)])
create_client_from_default_profile ==
    Row(Client("Profile", "default", "config", "credentials", None),
        [region |-> {"us-west-1"}, retry |-> Retry(10, 100)])
create_client_from_custom_profile_overriding_region ==
    Row(Client("Profile", "aws", "config", "credentials", "my-region2"),
        [region |-> {"my-region2"}, retry |-> Retry(10, 100)])
create_client_from_custom_timeout_connect_only ==
    Row([Client("Profile", "aws", "config", "credentials", "my-region")
            EXCEPT !.timeouts = [NoTimeouts EXCEPT !["connect"] = 1000]],
        [timeouts |-> "connect" :> 1000])
create_client_from_custom_timeout_operation_only ==
    Row([Client("Profile", "aws", "config", "credentials", "my-region")
            EXCEPT !.timeouts = [NoTimeouts EXCEPT !["operation"] = 1000]],
        [timeouts |-> "operation" :> 1000])

profile_credentials_resolved_with_both_files ==
    Row(profile_client_config("config", "credentials", "aws", None), [keys |-> {"aws keys"}])
profile_region_resolved_with_both_files ==
    Row(profile_client_config("config", "credentials", "aws", None), [region |-> {"ap-northeast-1"}])
profile_credentials_resolved_with_credentials_file_only ==
    Row(profile_client_config(None, "credentials", "aws", "us-east-1"),
        [keys |-> {"aws keys"}, region |-> {"us-east-1"}])
profile_credentials_resolved_from_config_file_only ==
    Row(profile_client_config("config with keys", None, "creds-in-config", None),
        [keys |-> {"config keys"}])
profile_region_resolved_from_config_file_only ==
    Row(profile_client_config("config with keys", None, "creds-in-config", None),
        [region |-> {"eu-central-1"}])
profile_credentials_in_config_with_both_files ==
    Row(profile_client_config("config with keys", "credentials beside it", "creds-in-config", None),
        [keys |-> {"config keys"}])
profile_default_credentials_with_both_files ==
    Row(profile_client_config("config", "credentials", "default", None), [keys |-> {"default keys"}])
profile_default_region_from_config_file ==
    Row(profile_client_config("config", "credentials", "default", None), [region |-> {"us-west-1"}])
profile_cli_region_overrides_config_file ==
    Row(profile_client_config("config", "credentials", "aws", "cli-override-region"),
        [region |-> {"cli-override-region"}])
create_client_from_environment ==
    Row([Client("FromEnvironment", None, None, None, "us-east-1") EXCEPT !.max_attempts = 3],
        [region |-> {"us-east-1"}])

(* storage/mod.rs: a client exists unless none was configured, whatever the rate. *)
make_test_config == Row([AccessKeys("us-east-1") EXCEPT !.max_attempts = 3], <<>>)
create_s3_storage_with_small_rate_limit == [make_test_config EXCEPT !.rate = 5]
create_s3_storage_express_one_zone == [make_test_config EXCEPT !.express = TRUE]
create_s3_storage_no_client_config == [make_test_config EXCEPT !.client = NoClient]

Tests ==
    { create_client_from_credentials, create_client_from_credentials_with_custom_timeouts,
      create_client_from_credentials_with_default_region, create_client_from_custom_profile,
      create_client_from_default_profile, create_client_from_custom_profile_overriding_region,
      create_client_from_custom_timeout_connect_only,
      create_client_from_custom_timeout_operation_only,
      profile_credentials_resolved_with_both_files, profile_region_resolved_with_both_files,
      profile_credentials_resolved_with_credentials_file_only,
      profile_credentials_resolved_from_config_file_only,
      profile_region_resolved_from_config_file_only, profile_credentials_in_config_with_both_files,
      profile_default_credentials_with_both_files, profile_default_region_from_config_file,
      profile_cli_region_overrides_config_file, create_client_from_environment,
      make_test_config, create_s3_storage_with_small_rate_limit,
      create_s3_storage_express_one_zone, create_s3_storage_no_client_config }

(* What every test asserts of the client holds of the one the model builds. *)
TestsHold ==
    doing["lister"] # "created" =>
        /\ (client = NoClient) = (case.client = NoClient)
        /\ client # NoClient => \A f \in DOMAIN case.expected : client[f] = case.expected[f]

(* The client is what its configuration says: for every way to name a profile     *)
(* (client_builder.rs), and as the unit tests of the builder expect.              *)
ClientWired == ProfileWired /\ TestsHold

=============================================================================
