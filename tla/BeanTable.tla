------------------------------ MODULE BeanTable ------------------------------
(***************************************************************************)
(* The declarations of the bean container: which Lambda functions          *)
(* (profiles) have which bean (bean/__init__.py), which beans the loader   *)
(* of a bean asks for while it builds it (bean/loaders), and which code    *)
(* asks for beans while requests are served.                               *)
(***************************************************************************)
EXTENDS Sequences

Profiles == {"web", "pubsub-poller", "live-agent-poller", "notification-publisher",
             "scheduler", "table-listener"}

(* HTTP_CLIENT_PROFILES, INSTANCE_PROFILES and EVENTS_PROFILES; LAMBDA_PROFILES *)
EventsProfiles == Profiles \ {"scheduler", "table-listener"}
LambdaProfiles == Profiles \ {"scheduler"}
PushProfiles == {"web", "notification-publisher"}

(* BeanName: the profiles of each bean.  (INSTANCE is a word of TLA+.) *)
ProfilesOf == [
    SECRETS_MANAGER_CLIENT |-> {"web"},
    HTTP_CLIENT |-> EventsProfiles,
    DYNAMODB_CLIENT |-> Profiles,
    DYNAMODB |-> Profiles,
    INSTANCE_BEAN |-> EventsProfiles,
    SECRETS_REPO |-> {"web"},
    EVENTS_REPO |-> EventsProfiles,
    ADMIN_CLIENT |-> {"web"},
    AUTHENTICATOR |-> {"web"},
    WEB_ROUTER |-> {"web"},
    SESSIONS_REPO |-> Profiles,
    USER_SESSIONS_REPO |-> Profiles,
    RESOURCE_LOCK_REPO |-> Profiles,
    SNS_CLIENT |-> Profiles,
    SNS |-> Profiles,
    ERROR_NOTIFIER |-> Profiles,
    CONFIG |-> Profiles,
    HTTP_CLIENT_BUILDER |-> EventsProfiles,
    PUSH_NOTIFICATION_CREDS |-> PushProfiles,
    FIREBASE_ADMIN |-> PushProfiles,
    PUSH_NOTIFICATION_CERT_BUILDER |-> PushProfiles,
    PUSH_NOTIFIER |-> PushProfiles,
    SEQUENCE_REPO |-> EventsProfiles,
    SESSION_CONTEXTS_REPO |-> Profiles,
    PUSH_NOTIFICATION_REPO |-> EventsProfiles \ {"web"},
    LIVE_AGENT_POLLER_PLATFORM |-> {"web", "live-agent-poller"},
    SFDC_SESSIONS_REPO |-> Profiles,
    LAMBDA_INVOKER |-> LambdaProfiles,
    SESSION_CONNECTOR |-> {"web"},
    LAMBDA_CLIENT |-> LambdaProfiles,
    LIVE_AGENT_PROCESSOR |-> {"live-agent-poller"},
    PUBSUB_POLLER_PROCESSOR |-> {"pubsub-poller"},
    SQS_CLIENT |-> EventsProfiles,
    SCHEDULER |-> EventsProfiles,
    LIVE_AGENT_MESSAGE_DISPATCHER |-> {"live-agent-poller"},
    PENDING_EVENTS_REPO |-> EventsProfiles,
    PUSH_NOTIFIER_PROCESSOR |-> {"notification-publisher"},
    SQS_PUSH_NOTIFIER |-> PushProfiles,
    PUSH_NOTIFICATION_MANAGER |-> PushProfiles,
    WORK_ID_MAP_REPO |-> {"web", "pubsub-poller"},
    SCHEDULER_CLIENT |-> EventsProfiles,
    LAMBDA_SCHEDULER_PROCESSOR |-> {"scheduler"},
    TABLE_LISTENER_PROCESSOR |-> {"table-listener"},
    PENDING_TENANT_EVENTS_REPO |-> {"table-listener", "pubsub-poller"},
    TENANT_CONTEXT_REPO |-> {"pubsub-poller"},
    SECURE_CHANNEL_CREDENTIALS |-> {"pubsub-poller"},
    PUBSUB_SERVICE |-> {"pubsub-poller"}]

Beans == DOMAIN ProfilesOf

(* The beans of each BeanType, in the order of _BEANS. *)
RequestHandlers == <<"WEB_ROUTER", "SESSION_CONNECTOR", "LIVE_AGENT_PROCESSOR",
                     "PUSH_NOTIFIER_PROCESSOR", "LAMBDA_SCHEDULER_PROCESSOR",
                     "TABLE_LISTENER_PROCESSOR", "PUBSUB_POLLER_PROCESSOR">>
EventListeners == <<"WORK_ID_MAP_REPO">>
PushNotifiers == <<"PUSH_NOTIFIER", "SQS_PUSH_NOTIFIER">>

(* The beans each loader obtains, in order, before it returns the new      *)
(* bean; a definition is named for its module in bean/loaders.  The        *)
(* modules not here obtain none.  @inject(beans=...) hands over a Bean,    *)
(* not its instance: such a dependency is not here but in Suppliers, where *)
(* the supplier made of it is used.                                        *)
dynamodb_loader == <<"DYNAMODB_CLIENT">>
instance_loader == <<"CONFIG", "SECRETS_REPO">>
secrets_repo_loader == <<"SECRETS_MANAGER_CLIENT">>
events_repo_loader == <<"DYNAMODB">> \o EventListeners
admin_client_loader == <<"SECRETS_REPO", "HTTP_CLIENT">>
authenticator_loader == <<"INSTANCE_BEAN", "ac_supplier">>
sessions_repo_loader == <<"DYNAMODB", "USER_SESSIONS_REPO", "EVENTS_REPO",
                          "SEQUENCE_REPO", "SFDC_SESSIONS_REPO">>
user_sessions_repo_loader == <<"DYNAMODB">>
resource_lock_repo_loader == <<"DYNAMODB">>
sns_loader == <<"SNS_CLIENT">>
error_notifier_loader == <<"SNS">>
push_provider_creds_loader == <<"ADMIN_CLIENT">>
sequence_repo_loader == <<"DYNAMODB", "EVENTS_REPO">>
session_contexts_repo_loader == <<"DYNAMODB", "CONFIG">>
push_notification_repo_loader == <<"DYNAMODB", "SEQUENCE_REPO",
                                   "SESSION_CONTEXTS_REPO", "LAMBDA_INVOKER",
                                   "CONFIG">>
sfdc_sessions_repo_loader == <<"DYNAMODB", "SESSION_CONTEXTS_REPO">>
lambda_invoker_loader == <<"LAMBDA_CLIENT">>
live_agent_processor_loader == <<"PENDING_EVENTS_REPO", "RESOURCE_LOCK_REPO",
                                 "SESSION_CONTEXTS_REPO", "LAMBDA_INVOKER",
                                 "CONFIG", "LIVE_AGENT_MESSAGE_DISPATCHER">>
pubsub_poller_processor_loader == <<"RESOURCE_LOCK_REPO",
                                    "PENDING_TENANT_EVENTS_REPO",
                                    "PUSH_NOTIFICATION_REPO", "SESSIONS_REPO",
                                    "USER_SESSIONS_REPO", "WORK_ID_MAP_REPO",
                                    "TENANT_CONTEXT_REPO", "LAMBDA_INVOKER",
                                    "CONFIG", "SECURE_CHANNEL_CREDENTIALS",
                                    "PUBSUB_SERVICE">>
scheduler_loader == <<"SCHEDULER_CLIENT", "LAMBDA_CLIENT">>
live_agent_message_dispatcher_loader == <<"PUSH_NOTIFICATION_REPO">>
pending_events_repo_loader == <<"DYNAMODB">>
push_notifier_processor_loader == <<"SESSION_CONTEXTS_REPO",
                                    "PUSH_NOTIFICATION_REPO",
                                    "PUSH_NOTIFICATION_MANAGER">>
sqs_push_notifier_loader == <<"SQS_CLIENT">>
push_notification_manager_loader == PushNotifiers
work_id_map_repo_loader == <<"DYNAMODB", "CONFIG">>
table_listener_processor_loader == <<"SESSION_CONTEXTS_REPO",
                                     "PENDING_TENANT_EVENTS_REPO",
                                     "LAMBDA_INVOKER">>
pending_tenant_events_repo_loader == <<"DYNAMODB">>
tenant_context_repo_loader == <<"DYNAMODB">>

Injected == [
    DYNAMODB |-> dynamodb_loader,
    INSTANCE_BEAN |-> instance_loader,
    SECRETS_REPO |-> secrets_repo_loader,
    EVENTS_REPO |-> events_repo_loader,
    ADMIN_CLIENT |-> admin_client_loader,
    AUTHENTICATOR |-> authenticator_loader,
    SESSIONS_REPO |-> sessions_repo_loader,
    USER_SESSIONS_REPO |-> user_sessions_repo_loader,
    RESOURCE_LOCK_REPO |-> resource_lock_repo_loader,
    SNS |-> sns_loader,
    ERROR_NOTIFIER |-> error_notifier_loader,
    PUSH_NOTIFICATION_CREDS |-> push_provider_creds_loader,
    SEQUENCE_REPO |-> sequence_repo_loader,
    SESSION_CONTEXTS_REPO |-> session_contexts_repo_loader,
    PUSH_NOTIFICATION_REPO |-> push_notification_repo_loader,
    SFDC_SESSIONS_REPO |-> sfdc_sessions_repo_loader,
    LAMBDA_INVOKER |-> lambda_invoker_loader,
    LIVE_AGENT_PROCESSOR |-> live_agent_processor_loader,
    PUBSUB_POLLER_PROCESSOR |-> pubsub_poller_processor_loader,
    SCHEDULER |-> scheduler_loader,
    LIVE_AGENT_MESSAGE_DISPATCHER |-> live_agent_message_dispatcher_loader,
    PENDING_EVENTS_REPO |-> pending_events_repo_loader,
    PUSH_NOTIFIER_PROCESSOR |-> push_notifier_processor_loader,
    SQS_PUSH_NOTIFIER |-> sqs_push_notifier_loader,
    PUSH_NOTIFICATION_MANAGER |-> push_notification_manager_loader,
    WORK_ID_MAP_REPO |-> work_id_map_repo_loader,
    TABLE_LISTENER_PROCESSOR |-> table_listener_processor_loader,
    PENDING_TENANT_EVENTS_REPO |-> pending_tenant_events_repo_loader,
    TENANT_CONTEXT_REPO |-> tenant_context_repo_loader]

(* The dependencies injected by type: a bean that is disabled is left out. *)
ByType == [EVENTS_REPO |-> EventListeners, PUSH_NOTIFICATION_MANAGER |-> PushNotifiers,
           dispatch |-> RequestHandlers]

(* What asks for beans while requests are served: the functions decorated  *)
(* with @inject and the suppliers made of Beans, each a MemoizedSupplier,  *)
(* and the Firebase application, made once in the same way.                *)
Suppliers == [
    dispatch |-> RequestHandlers,
    error_notify |-> <<"ERROR_NOTIFIER">>,
    process |-> <<"INSTANCE_BEAN">>,
    authenticate |-> <<"AUTHENTICATOR">>,
    ac_supplier |-> <<"ADMIN_CLIENT">>,
    push_supplier |-> <<"PUSH_NOTIFICATION_MANAGER">>,
    create_session |-> <<"INSTANCE_BEAN", "SESSIONS_REPO">>,
    connect_to_sfdc |-> <<"LIVE_AGENT_POLLER_PLATFORM", "SESSION_CONTEXTS_REPO", "LAMBDA_INVOKER">>,
    deserialize |-> <<"HTTP_CLIENT_BUILDER">>,
    load_api |-> <<"RESOURCE_LOCK_REPO", "SESSION_CONTEXTS_REPO", "WORK_ID_MAP_REPO">>,
    load_with_context |-> <<"SFDC_SESSIONS_REPO">>,
    sessions_supplier |-> <<"SESSIONS_REPO">>,
    pending_supplier |-> <<"PENDING_EVENTS_REPO">>,
    schedule_lambda |-> <<"SCHEDULER">>,
    set_context_data |-> <<"TENANT_CONTEXT_REPO">>,
    gcp_app |-> <<"PUSH_NOTIFICATION_CREDS", "FIREBASE_ADMIN", "PUSH_NOTIFICATION_CERT_BUILDER">>]

Nodes == Beans \cup DOMAIN Suppliers

(* What the code of each Lambda function asks for. *)
Calls == [p \in Profiles |->
    {"dispatch", "error_notify"} \cup
    (CASE p = "web" -> {"process", "authenticate", "push_supplier", "create_session",
                        "connect_to_sfdc", "deserialize", "load_api", "load_with_context",
                        "sessions_supplier", "pending_supplier", "gcp_app"}
       [] p = "live-agent-poller" -> {"load_with_context", "deserialize", "sessions_supplier",
                                      "pending_supplier"}
       [] p = "pubsub-poller" -> {"set_context_data"}
       [] p = "notification-publisher" -> {"RESOURCE_LOCK_REPO", "schedule_lambda",
                                           "sessions_supplier", "gcp_app"}
       [] OTHER -> {})]
=============================================================================
