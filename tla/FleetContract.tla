--------------------------- MODULE FleetContract ---------------------------
(***************************************************************************)
(* The contracts of the mesh as they are today, read from the descriptors  *)
(* the committed Go bindings carry (gen/go): every package, enum and       *)
(* message, with the shape of every field.                                 *)
(***************************************************************************)
EXTENDS Contract

-----------------------------------------------------------------------------
\* auth/v1/auth.proto

authPkg == <<"auth", "v1">>
InAuth(name) == Ref(authPkg, name)

AuthPayloadType == Enum(InAuth(<<"auth", "payload", "type">>),
    <<<<"unspecified">>, <<"oauth">>, <<"saml">>, <<"bareword">>, <<"jwt">>,
    <<"mtls">>, <<"api", "key">>, <<"basic">>, <<"bearer">>, <<"capability">>>>)

AuthPayload == Message(InAuth(<<"auth", "payload">>),
    <<EnumF(<<"type">>, InAuth(<<"auth", "payload", "type">>)),
    Octets(<<"payload">>)>>)

authFile ==
  File("auth/v1/auth.proto", authPkg, <<AuthPayloadType>>,
    <<AuthPayload>>)
-----------------------------------------------------------------------------
\* bento/v1/bento.proto

bentoPkg == <<"bento", "v1">>
InBento(name) == Ref(bentoPkg, name)

BentoState ==
  LET active == Enum(InBento(<<"bento", "state">>),
    <<<<"unspecified">>, <<"noticed">>, <<"cook">>, <<"partial">>, <<"done">>,
    <<"failed">>>>)
  IN  [active EXCEPT !.values = @ \o <<
    EnumValue(InBento(<<"bento", "state">>), <<"chew">>, 20),
    EnumValue(InBento(<<"bento", "state">>), <<"digest">>, 21),
    EnumValue(InBento(<<"bento", "state">>), <<"spoiled">>, 22)>>]

BanchanAssetKind == Enum(InBento(<<"banchan", "asset", "kind">>),
    <<<<"unspecified">>, <<"pre", "flight">>, <<"acceptance", "test">>,
    <<"compatibility", "test">>>>)

BanchanAsset == Message(InBento(<<"banchan", "asset">>),
    <<EnumF(<<"kind">>, InBento(<<"banchan", "asset", "kind">>)),
    Str(<<"location">>)>>)

Banchan == Message(InBento(<<"banchan">>),
    <<Str(<<"guid">>), Str(<<"name">>), Str(<<"kind">>), Str(<<"location">>),
    Rep(Msg(<<"assets">>, InBento(<<"banchan", "asset">>)))>>)

Bento == Message(InBento(<<"bento">>),
    <<Str(<<"id">>), Str(<<"name">>), Str(<<"kind">>),
    EnumF(<<"state">>, InBento(<<"bento", "state">>)), Str(<<"root", "path">>),
    Msg(<<"created", "at">>, Timestamp), Str(<<"schema", "json">>),
    Str(<<"prompt">>), Rep(Msg(<<"banchans">>, InBento(<<"banchan">>)))>>)

BentoLifecycleEvent == Message(InBento(<<"bento", "lifecycle", "event">>),
    <<Str(<<"event", "id">>), Str(<<"trace", "id">>), Str(<<"bento", "id">>),
    Str(<<"bento", "kind">>), EnumF(<<"state">>, InBento(<<"bento", "state">>)),
    Str(<<"handler">>), Msg(<<"started", "at">>, Timestamp),
    Msg(<<"finished", "at">>, Timestamp), Str(<<"error", "message">>)>>)

BentoManifest == Message(InBento(<<"bento", "manifest">>),
    <<Str(<<"bento", "id">>), Str(<<"kind">>), Flag(<<"ok">>), Str(<<"state">>),
    Str(<<"artifact">>), Msg(<<"params">>, Struct), Msg(<<"stats">>, Struct),
    Msg(<<"detail">>, Struct)>>)

bentoFile ==
  File("bento/v1/bento.proto", bentoPkg, <<BentoState, BanchanAssetKind>>,
    <<BanchanAsset, Banchan, Bento, BentoLifecycleEvent, BentoManifest>>)
-----------------------------------------------------------------------------
\* dataprovider/v1/data_provider.proto

dataproviderPkg == <<"dataprovider", "v1">>
InDataprovider(name) == Ref(dataproviderPkg, name)

Cell == Message(InDataprovider(<<"cell">>),
    <<Str(<<"row", "key">>), Str(<<"column">>), I64(<<"ref", "key">>),
    Msg(<<"body">>, Struct), Msg(<<"created", "at">>, Timestamp)>>)

GetRequest == Message(InDataprovider(<<"get", "request">>),
    <<Str(<<"namespace">>), Str(<<"row", "key">>), Str(<<"column">>),
    I64(<<"ref", "key">>),
    Rep(Msg(<<"credentials">>, InAuth(<<"auth", "payload">>)))>>)

GetResponse == Message(InDataprovider(<<"get", "response">>),
    <<Msg(<<"cell">>, InDataprovider(<<"cell">>)), Flag(<<"found">>)>>)

GetLatestRequest == Message(InDataprovider(<<"get", "latest", "request">>),
    <<Str(<<"namespace">>), Str(<<"row", "key">>), Str(<<"column">>),
    Rep(Msg(<<"credentials">>, InAuth(<<"auth", "payload">>)))>>)

GetLatestResponse == Message(InDataprovider(<<"get", "latest", "response">>),
    <<Msg(<<"cell">>, InDataprovider(<<"cell">>)), Flag(<<"found">>)>>)

PutRequest == Message(InDataprovider(<<"put", "request">>),
    <<Str(<<"namespace">>), Str(<<"row", "key">>), Str(<<"column">>),
    I64(<<"ref", "key">>), Msg(<<"body">>, Struct),
    Rep(Msg(<<"credentials">>, InAuth(<<"auth", "payload">>)))>>)

PutResponse == Message(InDataprovider(<<"put", "response">>),
    <<Str(<<"row", "key">>), Str(<<"column">>), I64(<<"ref", "key">>)>>)

QueryRequest == Message(InDataprovider(<<"query", "request">>),
    <<Str(<<"namespace">>), Str(<<"index">>),
    MapTo(Msg(<<"predicates">>, Value)), Str(<<"shard", "hint">>),
    U32(<<"limit">>),
    Rep(Msg(<<"credentials">>, InAuth(<<"auth", "payload">>)))>>)

QueryResponse == Message(InDataprovider(<<"query", "response">>),
    <<Rep(Msg(<<"rows">>, InDataprovider(<<"cell">>))),
    Str(<<"next", "page", "token">>)>>)

dataproviderFile ==
  File("dataprovider/v1/data_provider.proto", dataproviderPkg, <<>>,
    <<Cell, GetRequest, GetResponse, GetLatestRequest, GetLatestResponse,
    PutRequest, PutResponse, QueryRequest, QueryResponse>>)
-----------------------------------------------------------------------------
\* frood/v1/frood.proto

froodPkg == <<"frood", "v1">>
InFrood(name) == Ref(froodPkg, name)

Identity == Message(InFrood(<<"identity">>),
    <<Str(<<"service", "name">>), Str(<<"project">>), Str(<<"version">>)>>)

ContractRef == Message(InFrood(<<"contract", "ref">>),
    <<Str(<<"subject">>), Str(<<"version">>)>>)

ContractDescriptor == Message(InFrood(<<"contract", "descriptor">>),
    <<Rep(Msg(<<"emits">>, InFrood(<<"contract", "ref">>))),
    Rep(Msg(<<"consumes">>, InFrood(<<"contract", "ref">>))),
    Rep(Msg(<<"serves">>, InFrood(<<"contract", "ref">>)))>>)

froodFile ==
  File("frood/v1/frood.proto", froodPkg, <<>>,
    <<Identity, ContractRef, ContractDescriptor>>)
-----------------------------------------------------------------------------
\* model/v1/model.proto

modelPkg == <<"model", "v1">>
InModel(name) == Ref(modelPkg, name)

Modality == Enum(InModel(<<"modality">>),
    <<<<"unspecified">>, <<"text">>, <<"audio">>, <<"image">>>>)

Architecture == Enum(InModel(<<"architecture">>),
    <<<<"unspecified">>, <<"decoder">>, <<"encoder", "decoder">>,
    <<"encoder">>>>)

Role == Enum(InModel(<<"role">>),
    <<<<"unspecified">>, <<"chat">>, <<"completion">>, <<"embedding">>,
    <<"transcription">>, <<"audio", "annotation">>, <<"image", "generation">>,
    <<"speech", "synthesis">>>>)

Provider == Enum(InModel(<<"provider">>),
    <<<<"unspecified">>, <<"ollama">>, <<"in", "process">>,
    <<"openai", "compatible">>, <<"anthropic">>, <<"comfyui">>,
    <<"apple", "on", "device">>>>)

ModelDescriptor == Message(InModel(<<"model", "descriptor">>),
    <<Str(<<"name">>), EnumF(<<"modality">>, InModel(<<"modality">>)),
    EnumF(<<"architecture">>, InModel(<<"architecture">>)),
    EnumF(<<"role">>, InModel(<<"role">>)),
    EnumF(<<"provider">>, InModel(<<"provider">>)), Str(<<"endpoint">>),
    Str(<<"model", "id">>), Str(<<"auth", "secret">>)>>)

ModelFamily == Message(InModel(<<"model", "family">>),
    <<Str(<<"name">>), Str(<<"description">>),
    EnumF(<<"modality">>, InModel(<<"modality">>)),
    EnumF(<<"role">>, InModel(<<"role">>)),
    Rep(Msg(<<"members">>, InModel(<<"model", "descriptor">>))),
    Str(<<"default", "member">>)>>)

ModelCatalog == Message(InModel(<<"model", "catalog">>),
    <<Rep(Msg(<<"families">>, InModel(<<"model", "family">>)))>>)

InvokeRequest == Message(InModel(<<"invoke", "request">>),
    <<EnumF(<<"role">>, InModel(<<"role">>)), Str(<<"model", "id">>),
    Str(<<"text">>), Str(<<"input", "path">>), MapTo(Str(<<"params">>))>>)

InvokeResponse == Message(InModel(<<"invoke", "response">>),
    <<Str(<<"text">>), Str(<<"output", "path">>), MapTo(Str(<<"detail">>))>>)

modelFile ==
  File("model/v1/model.proto", modelPkg, <<Modality, Architecture, Role,
    Provider>>,
    <<ModelDescriptor, ModelFamily, ModelCatalog, InvokeRequest,
    InvokeResponse>>)
-----------------------------------------------------------------------------
\* observability/v1/observability.proto

observabilityPkg == <<"observability", "v1">>
InObservability(name) == Ref(observabilityPkg, name)

HealthState == Enum(InObservability(<<"health", "state">>),
    <<<<"unspecified">>, <<"green">>, <<"yellow">>, <<"red">>,
    <<"exhausted">>>>)

ServiceHealthHeartbeat == Message(InObservability(<<"service", "health", "heartbeat">>),
    <<Str(<<"service", "name">>),
    EnumF(<<"current", "state">>, InObservability(<<"health", "state">>)),
    U32(<<"uptime", "seconds">>), U32(<<"internal", "load", "metric">>),
    Msg(<<"timestamp">>, Timestamp), Str(<<"idempotency", "key">>)>>)

TokenBurnEvent == Message(InObservability(<<"token", "burn", "event">>),
    <<Str(<<"agent", "id">>), Str(<<"action", "context">>),
    U32(<<"tokens", "consumed">>),
    Opt(U32(<<"cost", "estimated", "micro", "usd">>)),
    Msg(<<"timestamp">>, Timestamp), Str(<<"idempotency", "key">>)>>)

WidgetStatePayload == Message(InObservability(<<"widget", "state", "payload">>),
    <<Msg(<<"calculated", "at">>, Timestamp),
    Msg(<<"fleet">>, InObservability(<<"fleet", "metrics">>)),
    Msg(<<"quota">>, InObservability(<<"quota", "metrics">>))>>)

FleetMetrics == Message(InObservability(<<"fleet", "metrics">>),
    <<EnumF(<<"overall", "health">>, InObservability(<<"health", "state">>)),
    U32(<<"active", "nodes">>), U32(<<"degraded", "nodes">>),
    Str(<<"active", "discovery", "endpoint">>)>>)

QuotaMetrics == Message(InObservability(<<"quota", "metrics">>),
    <<EnumF(<<"runway", "state">>, InObservability(<<"health", "state">>)),
    U32(<<"runway", "minutes", "remaining">>),
    U32(<<"burn", "rate", "tokens", "per", "minute">>),
    U32(<<"absolute", "quota", "remaining", "cents">>)>>)

observabilityFile ==
  File("observability/v1/observability.proto", observabilityPkg, <<
    HealthState>>,
    <<ServiceHealthHeartbeat, TokenBurnEvent, WidgetStatePayload, FleetMetrics,
    QuotaMetrics>>)
-----------------------------------------------------------------------------
\* registry/v1/register.proto

registryPkg == <<"registry", "v1">>
InRegistry(name) == Ref(registryPkg, name)

Endpoint == Message(InRegistry(<<"endpoint">>),
    <<Str(<<"scheme">>), Str(<<"address">>)>>)

RegisterRequest == Message(InRegistry(<<"register", "request">>),
    <<Str(<<"project">>), Msg(<<"identity">>, InFrood(<<"identity">>)),
    Msg(<<"contracts">>, InFrood(<<"contract", "descriptor">>)),
    Rep(Msg(<<"endpoints">>, InRegistry(<<"endpoint">>)))>>)

RegisterResponse == Message(InRegistry(<<"register", "response">>),
    <<Msg(<<"identity">>, InFrood(<<"identity">>)),
    Msg(<<"endpoint">>, InRegistry(<<"endpoint">>)),
    U32(<<"lease", "ttl", "seconds">>), Msg(<<"config">>, Struct)>>)

Registration == Message(InRegistry(<<"registration">>),
    <<Str(<<"project">>), Msg(<<"identity">>, InFrood(<<"identity">>)),
    Msg(<<"contracts">>, InFrood(<<"contract", "descriptor">>)),
    Msg(<<"endpoint">>, InRegistry(<<"endpoint">>)),
    Msg(<<"registered", "at">>, Timestamp),
    Msg(<<"lease", "expires", "at">>, Timestamp)>>)

RegistrationSet == Message(InRegistry(<<"registration", "set">>),
    <<Rep(Msg(<<"registrations">>, InRegistry(<<"registration">>)))>>)

registryFile ==
  File("registry/v1/register.proto", registryPkg, <<>>,
    <<Endpoint, RegisterRequest, RegisterResponse, Registration,
    RegistrationSet>>)
-----------------------------------------------------------------------------
\* sidecar/v1/sidecar.proto

sidecarPkg == <<"sidecar", "v1">>
InSidecar(name) == Ref(sidecarPkg, name)

Capability == Enum(InSidecar(<<"capability">>),
    <<<<"unspecified">>, <<"model">>>>)

Language == Enum(InSidecar(<<"language">>),
    <<<<"unspecified">>, <<"swift">>, <<"go">>, <<"python">>>>)

SidecarDescriptor == Message(InSidecar(<<"sidecar", "descriptor">>),
    <<Str(<<"name">>), EnumF(<<"capability">>, InSidecar(<<"capability">>)),
    EnumF(<<"language">>, InSidecar(<<"language">>)), Str(<<"endpoint">>),
    Str(<<"health", "path">>)>>)

sidecarFile ==
  File("sidecar/v1/sidecar.proto", sidecarPkg, <<Capability, Language>>,
    <<SidecarDescriptor>>)

-----------------------------------------------------------------------------

Fleet == <<authFile, bentoFile, dataproviderFile, froodFile, modelFile,
           observabilityFile, registryFile, sidecarFile>>

=============================================================================
