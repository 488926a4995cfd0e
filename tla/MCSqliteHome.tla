---------------------------- MODULE MCSqliteHome ----------------------------
(***************************************************************************)
(* TLC instances of SqliteHome: machines with up to three of the sources set, *)
(* every way one field of a sign-in or of a cache can be off, XML and       *)
(* binary property lists cut, extended or with sizes at their limits.       *)
(***************************************************************************)
EXTENDS SqliteHome, TLC

(****************************** sign-ins **********************************)

Typed(kinds) == [f \in DOMAIN kinds |->
                    IF kinds[f] \in {"requiredBool", "optionalBool"} THEN "bool" ELSE "string"]

Jwt(plan) == [parts |-> TRUE, email |-> "string", profile |-> NoStruct,
              auth |-> Typed(ClaimKinds), plan |-> plan, user |-> "u1"]

Tokens(plan) == [struct |-> Typed(TokenKinds), account |-> "a1", jwt |-> Jwt(plan)]
Agent(plan) == [struct |-> Typed(AgentKinds), blankTask |-> FALSE, plan |-> plan,
                user |-> "u1", account |-> "a1"]

Empty == [object |-> TRUE, auth_mode |-> "absent", OPENAI_API_KEY |-> "absent",
          personal_access_token |-> "absent", bedrock_api_key |-> NoStruct,
          bedrock_access_keys |-> NoStruct, last_refresh |-> "absent",
          tokens |-> [Tokens("none") EXCEPT !.struct = NoStruct],
          agent_identity |-> [Agent("none") EXCEPT !.struct = NoStruct]]

ChatGPT(plan) == [Empty EXCEPT !.tokens = Tokens(plan)]
AgentIdentity(plan) == [Empty EXCEPT !.auth_mode = "agentIdentity",
                                     !.agent_identity = Agent(plan)]

Account == ChatGPT("eligible")
Record == AgentIdentity("eligible")
SecondAccount == [Account EXCEPT !.tokens.jwt.user = "u2", !.tokens.account = "a2"]

Modes ==
    {[Account EXCEPT !.auth_mode = m] : m \in AuthModes \cup {"other"}}
    \cup {[Account EXCEPT !.OPENAI_API_KEY = r] : r \in Raw}
    \cup {[Account EXCEPT !.personal_access_token = r] : r \in Raw}
    \cup {[Empty EXCEPT !.OPENAI_API_KEY = "string"], Empty,
          [Account EXCEPT !.object = FALSE],
          [Account EXCEPT !.bedrock_api_key = Typed(BedrockKeyKinds)],
          [Account EXCEPT !.bedrock_access_keys = Typed(BedrockAccessKinds)]}
    \cup {[Account EXCEPT !.last_refresh = r] : r \in {"null", "rfc3339", "other"}}

Accounts ==
    {ChatGPT(p) : p \in Plans} \cup {AgentIdentity(p) : p \in Plans}
    \cup {[Account EXCEPT !.tokens.struct[f] = r] : f \in DOMAIN TokenKinds, r \in Raw}
    \cup {[Account EXCEPT !.tokens.jwt.auth[f] = r] : f \in DOMAIN ClaimKinds, r \in Raw}
    \cup {[Account EXCEPT !.tokens.jwt.auth = s] : s \in {NoStruct, OtherStruct}}
    \cup {[Account EXCEPT !.tokens.jwt.email = r] : r \in Raw}
    \cup {[Account EXCEPT !.tokens.jwt.parts = FALSE],
          [Account EXCEPT !.tokens.jwt.profile = OtherStruct]}
    \cup {[Record EXCEPT !.agent_identity.struct[f] = r] : f \in DOMAIN AgentKinds, r \in Raw}
    \cup {[Record EXCEPT !.agent_identity.struct = s] : s \in {NoStruct, OtherStruct, TextStruct}}
    \cup {[Record EXCEPT !.agent_identity.blankTask = TRUE]}

File(doc) == [file |-> "present", doc |-> doc]
NoFile == [file |-> "missing", doc |-> Empty]
Unreadable == [file |-> "unreadable", doc |-> Empty]

FewSignIns == {NoFile, File(Account), File(SecondAccount)}

(******************************* caches ***********************************)

Bundle(requirement, config) == [requirements |-> requirement, config |-> config]

FewBundles == {NoBundle, Bundle(<<"absolute">>, <<>>), Bundle(<<>>, <<Unset, "absolute">>)}

Bundles == FewBundles \cup {Bundle(<<Invalid>>, <<>>), Bundle(<<>>, <<"absolute", Invalid>>),
                            Bundle(<<"relative", "absolute">>, <<>>)}

Resign(c) == [c EXCEPT !.signature = SignedPayload(c)]

Good(b) == Resign([file |-> "present", version |-> 1, expires |-> 2, user |-> "u1",
                   account |-> "a1", bundle |-> b, signature |-> <<>>,
                   fields |-> [f \in RequiredCacheFields \cup OptionalCacheFields |-> "string"]])

GoodCache == Good(Bundle(<<"absolute">>, <<>>))

NoCache == [GoodCache EXCEPT !.file = "missing"]

OffCaches ==
    {NoCache, [GoodCache EXCEPT !.file = "unreadable"], [GoodCache EXCEPT !.expires = 3],
     [GoodCache EXCEPT !.bundle = NoBundle]}
    \cup {Resign(c) : c \in {[GoodCache EXCEPT !.expires = 1], [GoodCache EXCEPT !.version = 2],
                             [GoodCache EXCEPT !.user = "u2"], [GoodCache EXCEPT !.account = "a2"],
                             [GoodCache EXCEPT !.user = "none", !.fields["chatgpt_user_id"] = "null"],
                             [GoodCache EXCEPT !.account = "none", !.fields["account_id"] = "absent"]}}
    \cup {[GoodCache EXCEPT !.fields[f] = r] : f \in RequiredCacheFields, r \in Raw \ {"bool"}}
    \cup {[GoodCache EXCEPT !.fields[f] = r] :
             f \in OptionalCacheFields, r \in {"other", "repeated"}}

(*************************** property lists *******************************)

XML(items) == [binary |-> FALSE, items |-> items, plist |-> <<>>]

Entry(key, text) == IF text = Unset THEN <<>> ELSE <<<<"key", key>>, <<"string", text>>>>

Whole(entries) == <<<<"open", "plist">>, <<"open", "dict">>>> \o entries \o <<<<"end">>, <<"end">>>>

List(config, requirement) ==
    XML(Whole(Entry("config", config) \o Entry("requirements", requirement)))

Items == Whole(<<<<"key", "other">>, <<"element">>>> \o Entry("config", "absolute"))

InsertItem(items, at, item) == SubSeq(items, 1, at) \o <<item>> \o SubSeq(items, at + 1, Len(items))

OddLists ==
    {XML(SubSeq(Items, 1, n)) : n \in 0..Len(Items)}
    \cup {XML(InsertItem(Items, n, t)) : n \in 0..Len(Items),
             t \in {<<"comment">>, <<"directive">>, <<"text">>, <<"broken">>, <<"end">>, <<"element">>}}
    \cup {XML(Whole(Entry("config", "absolute") \o Entry("config", "relative"))),
          XML(Whole(<<<<"key", "config">>, <<"element">>>>)),
          XML(<<<<"open", "dict">>, <<"open", "dict">>, <<"end">>, <<"end">>>>)}

\* Objects: the top dictionary, its one key and its value.
Object(offset, type, count, wide, text) ==
    [offset |-> offset, type |-> type, count |-> count, wide |-> wide, text |-> text]

Limits == {0, 1, 2, 3, 4, 6, 7, 8, 12, 15}

Binary(sizes, n, top, table, dict, value) ==
    [binary |-> TRUE, items |-> <<>>,
     plist |-> [objectsEnd |-> 7, offsetSize |-> sizes[1], refSize |-> sizes[2],
                numObjects |-> n, topObject |-> top, offsetTable |-> table,
                objects |-> [r \in 0..15 |->
                                CASE r = 0 -> dict
                                  [] r = 1 -> Object(2, "ascii", 1, 0, "config")
                                  [] OTHER -> value],
                refs |-> [i \in 1..30 |-> IF i % 2 = 1 THEN 1 ELSE 2]]]

Dict == Object(1, "dict", 1, 0, "none")
Value == Object(3, "ascii", 1, 0, "absolute")

BinaryLists ==
    {Binary(<<s, r>>, n, 0, table, Dict, Value) :
        s \in 0..2, r \in 1..2, n \in Limits, table \in Limits}
    \cup {Binary(<<1, 1>>, 3, 0, 4, Object(1, "dict", c, w, "none"), Value) :
             c \in Limits, w \in {0, 1, 2}}
    \cup {Binary(<<1, 1>>, 3, top, 4, Dict, Object(o, t, c, w, "absolute")) :
             top \in {0, 1}, o \in Limits, t \in {"ascii", "utf16", "int"}, c \in Limits,
             w \in {0, 1, 2}}

(****************************** machines **********************************)

Texts == {"absolute", "relative", Invalid}

NoFiles == [f \in Files |-> Unset]

Machine(texts, plists) ==
    [files |-> [f \in Files |-> IF f \in DOMAIN texts THEN texts[f] ELSE Unset],
     environment |-> IF "environment" \in DOMAIN texts THEN texts["environment"] ELSE Unset,
     plists |-> plists, missing |-> {<<"root", "systemConfig">>}]

Sources == Files \cup {"environment", "mdmConfig", "mdmRequirements"}

Text(texts, s) == IF s \in DOMAIN texts THEN texts[s] ELSE Unset

OnMac(texts) == Machine(texts, <<List(Text(texts, "mdmConfig"), Text(texts, "mdmRequirements")),
                                 List("absolute", Unset)>>)
OnLinux(texts) == Machine(texts, <<>>)

Combinations(n) ==
    {t \in UNION {[s -> Texts] : s \in {s \in SUBSET Sources : Cardinality(s) <= n}} :
        Text(t, "environment") # Invalid}

\* Three sources at once, each with a path of its own: the middle one loses.
Triples == UNION {[s -> {"absolute"}] : s \in {s \in SUBSET Sources : Cardinality(s) = 3}}

Bare == OnLinux([environment |-> "empty"])
WithConfig == OnLinux([config |-> "absolute"])
WithOverlay == OnLinux([overlay |-> "tilde", config |-> "empty"])

Setup(m, a, c, n) == [machine |-> m, auth |-> a, cache |-> c, changes |-> n]

AllSetups ==
    {Setup(OnLinux(t), NoFile, NoCache, 0) : t \in Combinations(2)}
    \cup {Setup(OnMac(t), NoFile, NoCache, 0) : t \in Combinations(2) \cup Triples}
    \cup {Setup(OnLinux(t), File(Account), Good(b), 1) :
             t \in Combinations(1), b \in Bundles}
    \cup {Setup(m, a, c, MaxChanges) :
             m \in {Bare, WithConfig, WithOverlay}, a \in FewSignIns,
             c \in {NoCache, GoodCache, Resign([GoodCache EXCEPT !.user = "u2", !.account = "a2"])}}
    \cup {Setup(m, File(Account), c, 1) : m \in {Bare, WithConfig, WithOverlay}, c \in OffCaches}
    \cup {Setup(Bare, File(d), GoodCache, 0) : d \in Modes \cup Accounts}
    \cup {Setup(Bare, Unreadable, GoodCache, 0)}
    \cup {Setup(Machine([config |-> "relative"], <<l>>), NoFile, NoCache, 0) :
             l \in OddLists \cup BinaryLists}
=============================================================================
