------------------------------ MODULE AuthGate ------------------------------
(***************************************************************************)
(* What auth.json says about the cloud config bundle of Codex               *)
(* (internal/tool/codex/requirements.go): does a bundle apply to this       *)
(* sign-in, does it never apply, or can only Codex itself decide.           *)
(*                                                                         *)
(* A JSON value is its class: a field may be absent, null, of a type the    *)
(* layout wants ("string", "bool"), of another type, or repeated in its     *)
(* object. A struct is a record of its declared fields, or one of the three *)
(* below when there is no object to look into.                              *)
(***************************************************************************)
EXTENDS Naturals, Sequences, FiniteSets

Raw == {"absent", "null", "string", "bool", "other", "repeated"}

NoStruct == [kind |-> "absent or null"]
OtherStruct == [kind |-> "other"]
TextStruct == [kind |-> "string"]

AuthModes == {"apikey", "chatgpt", "chatgptAuthTokens", "headers",
              "agentIdentity", "personalAccessToken", "bedrockApiKey",
              "bedrockAccessKeys"}

Plans == {"none", "eligible", "alias", "personal"}

isJSONNull(raw) == raw \in {"absent", "null"}

(* One declared field against its kind, in the two passes of the code: the  *)
(* null check by kind, then the decoding into a string or a bool.           *)
validJSONField(kind, raw) ==
    \/ kind = "optionalString" /\ isJSONNull(raw)
    \/ kind = "optionalBool" /\ raw = "absent"
    \/ /\ ~isJSONNull(raw)
       /\ raw = IF kind \in {"requiredString", "optionalString"}
                THEN "string" ELSE "bool"

(* A struct all of whose fields are scalars: an object that repeats no      *)
(* declared field, every field of its kind. Undeclared fields are ignored   *)
(* and not represented.                                                     *)
jsonStruct(struct, kinds) ==
    /\ struct \notin {NoStruct, OtherStruct, TextStruct}
    /\ \A f \in DOMAIN kinds : /\ struct[f] # "repeated"
                               /\ validJSONField(kinds[f], struct[f])

optionalJSONStruct(struct, kinds) == struct = NoStruct \/ jsonStruct(struct, kinds)

BedrockKeyKinds == [api_key |-> "requiredString", region |-> "requiredString"]

BedrockAccessKinds ==
    [access_key_id |-> "requiredString", secret_access_key |-> "requiredString",
     session_token |-> "optionalString"]

TokenKinds ==
    [id_token |-> "requiredString", access_token |-> "requiredString",
     refresh_token |-> "requiredString", account_id |-> "optionalString"]

AgentKinds ==
    [agent_runtime_id |-> "requiredString", agent_private_key |-> "requiredString",
     account_id |-> "requiredString", chatgpt_user_id |-> "requiredString",
     email |-> "optionalString", plan_type |-> "requiredString",
     chatgpt_account_is_fedramp |-> "requiredBool", task_id |-> "optionalString"]

ClaimKinds ==
    [chatgpt_plan_type |-> "optionalString", chatgpt_user_id |-> "optionalString",
     user_id |-> "optionalString", chatgpt_account_id |-> "optionalString",
     chatgpt_account_is_fedramp |-> "optionalBool"]

\* What may stand where a struct of these fields is expected.
StructOf(kinds) == {NoStruct, OtherStruct, TextStruct} \cup [DOMAIN kinds -> Raw]

(* The id_token: three non-empty parts and a decodable payload ("parts"),   *)
(* email and profile of their types, and the auth claim, which may be       *)
(* missing: the token is then one without a plan.                           *)
parseIDTokenClaims(jwt) ==
    /\ jwt.parts
    /\ validJSONField("optionalString", jwt.email)
    /\ optionalJSONStruct(jwt.profile, [email |-> "optionalString"])
    /\ optionalJSONStruct(jwt.auth, ClaimKinds)

parseTokenData(tokens) ==
    \/ tokens.struct = NoStruct
    \/ jsonStruct(tokens.struct, TokenKinds) /\ parseIDTokenClaims(tokens.jwt)

(* A JWT string, or a stored record.                                        *)
parseAgentIdentityStorage(agent) ==
    agent.struct \in {NoStruct, TextStruct} \/ jsonStruct(agent.struct, AgentKinds)

parseAuthDotJSON(doc) ==
    /\ doc.object
    /\ doc.auth_mode \in AuthModes \cup {"absent"}
    /\ validJSONField("optionalString", doc.OPENAI_API_KEY)
    /\ validJSONField("optionalString", doc.personal_access_token)
    /\ optionalJSONStruct(doc.bedrock_api_key, BedrockKeyKinds)
    /\ optionalJSONStruct(doc.bedrock_access_keys, BedrockAccessKinds)
    /\ doc.last_refresh \in {"absent", "null", "rfc3339"}
    /\ parseTokenData(doc.tokens)
    /\ parseAgentIdentityStorage(doc.agent_identity)

hasKey(raw) == ~isJSONNull(raw)

resolvedAuthMode(doc) ==
    CASE doc.auth_mode # "absent" -> doc.auth_mode
      [] doc.auth_mode = "absent" /\ hasKey(doc.personal_access_token) ->
            "personalAccessToken"
      [] doc.auth_mode = "absent" /\ ~hasKey(doc.personal_access_token)
            /\ doc.bedrock_api_key # NoStruct -> "bedrockApiKey"
      [] doc.auth_mode = "absent" /\ ~hasKey(doc.personal_access_token)
            /\ doc.bedrock_api_key = NoStruct
            /\ doc.bedrock_access_keys # NoStruct -> "bedrockAccessKeys"
      [] OTHER -> IF hasKey(doc.OPENAI_API_KEY) THEN "apikey" ELSE "chatgpt"

NeverApplies == [gate |-> "never", user |-> "none", account |-> "none"]
Undecidable == [gate |-> "undecidable", user |-> "none", account |-> "none"]
Applies(user, account) == [gate |-> "applies", user |-> user, account |-> account]

(* A mode whose credential is absent is one Codex cannot load.              *)
materialOrCannotLoad(present, loaded) == IF present THEN loaded ELSE Undecidable

(* serde's aliases of a plan are accepted in an id_token only.              *)
accountPlanGetsCloudConfig(plan) == plan = "eligible"
idTokenPlanGetsCloudConfig(plan) == plan = "alias" \/ accountPlanGetsCloudConfig(plan)

(* A claim that is there carries the value of the sign-in.                  *)
ClaimedPlan(jwt) ==
    IF jwt.auth = NoStruct \/ isJSONNull(jwt.auth.chatgpt_plan_type)
    THEN "none" ELSE jwt.plan

ClaimedUser(jwt) ==
    IF \/ jwt.auth = NoStruct
       \/ isJSONNull(jwt.auth.chatgpt_user_id) /\ isJSONNull(jwt.auth.user_id)
    THEN "none" ELSE jwt.user

chatgptCloudAuth(tokens) ==
    IF tokens.struct = NoStruct \/ ~idTokenPlanGetsCloudConfig(ClaimedPlan(tokens.jwt))
    THEN NeverApplies
    ELSE Applies(ClaimedUser(tokens.jwt),
                 IF isJSONNull(tokens.struct.account_id) THEN "none"
                 ELSE tokens.account)

agentIdentityCloudAuth(agent) ==
    IF \/ agent.struct \in {NoStruct, TextStruct}
       \/ isJSONNull(agent.struct.task_id)
       \/ agent.blankTask
    THEN Undecidable
    ELSE IF accountPlanGetsCloudConfig(agent.plan)
         THEN Applies(agent.user, agent.account)
         ELSE NeverApplies

(* readCloudAuth's answer in each mode. A personal access token is resolved *)
(* over the network; headers auth is never loaded from a file.              *)
cloudAuthOfMode(doc, mode) ==
    CASE mode = "apikey" ->
            materialOrCannotLoad(hasKey(doc.OPENAI_API_KEY), NeverApplies)
      [] mode = "bedrockApiKey" ->
            materialOrCannotLoad(doc.bedrock_api_key # NoStruct, NeverApplies)
      [] mode = "bedrockAccessKeys" ->
            materialOrCannotLoad(doc.bedrock_access_keys # NoStruct, NeverApplies)
      [] mode = "agentIdentity" -> agentIdentityCloudAuth(doc.agent_identity)
      [] mode \in {"chatgpt", "chatgptAuthTokens"} -> chatgptCloudAuth(doc.tokens)
      [] OTHER -> Undecidable

(* readCloudAuth of a file that can be read.                                *)
cloudAuthOf(doc) ==
    IF parseAuthDotJSON(doc) THEN cloudAuthOfMode(doc, resolvedAuthMode(doc))
    ELSE Undecidable

readCloudAuth(auth) ==
    IF auth.file = "missing" THEN NeverApplies ELSE cloudAuthOf(auth.doc)

(* What a file can hold: each struct is one, or is not, in one of the ways  *)
(* there are, and a plan is one of the plans.                               *)
IsDocument(doc) ==
    /\ doc.bedrock_api_key \in StructOf(BedrockKeyKinds)
    /\ doc.bedrock_access_keys \in StructOf(BedrockAccessKinds)
    /\ doc.tokens.struct \in StructOf(TokenKinds)
    /\ doc.tokens.jwt.profile \in StructOf([email |-> "optionalString"])
    /\ doc.tokens.jwt.auth \in StructOf(ClaimKinds)
    /\ doc.agent_identity.struct \in StructOf(AgentKinds)
    /\ {doc.tokens.jwt.plan, doc.agent_identity.plan} \subseteq Plans
=============================================================================
