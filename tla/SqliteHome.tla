----------------------------- MODULE SqliteHome -----------------------------
(***************************************************************************)
(* Where Codex keeps its databases: newHome's resolution of sqlite_home     *)
(* (internal/tool/codex/home.go and requirements.go) and what a command may *)
(* say of a project it did not find there. Codex itself runs beside it: a   *)
(* user may sign in with another account and a start of Codex refreshes the *)
(* cloud cache between any two reads.                                       *)
(*                                                                         *)
(* A sqlite_home is one of the texts below; a directory is a tuple. Every   *)
(* source has an absolute path of its own, so that no two sources agree by  *)
(* chance.                                                                  *)
(***************************************************************************)
EXTENDS AuthGate, ManagedPlist

CONSTANTS
    Setups,         \* the machines considered: configuration files,
                    \* auth.json and cloud config bundle cache
    SignIns,        \* what auth.json may change into
    Fetchable,      \* the bundles the network may answer with
    OsHome,         \* the value of $HOME
    Now,            \* time.Now(), taken once when newHome starts
    MaxChanges      \* bound on what happens beside cc-port; a setup says
                    \* how much of it may happen to that machine

ASSUME SqliteHomeAssumption ==
    /\ Now \in Nat /\ MaxChanges \in Nat
    /\ \A setup \in Setups : setup.changes \in 0..MaxChanges

(* What a property list can be: a document of items, or a binary file that  *)
(* is no longer than the machine can address.                               *)
ASSUME PlistsAssumption ==
    \A setup \in Setups : \A i \in DOMAIN setup.machine.plists :
        LET list == setup.machine.plists[i] IN
        IF list.binary THEN IsBinary(list.plist) /\ FitsTheWord(list.plist)
        ELSE IsXML(list.items)

(* Lists and fragments are finite and ordered; what an environment variable *)
(* holds is always a text.                                                  *)
IsBundle(b) == DOMAIN b.requirements \subseteq Nat /\ DOMAIN b.config \subseteq Nat

ASSUME MachinesAssumption ==
    \A setup \in Setups :
        /\ DOMAIN setup.machine.plists \subseteq Nat
        /\ setup.machine.environment # "invalid"

(* What auth.json and the cache can hold.                                   *)
IsSignIn(a) == a.file \in {"present", "missing", "unreadable"} /\ IsDocument(a.doc)

IsCache(c) ==
    c.file \in {"present", "missing", "unreadable"} /\ c.expires \in Nat /\ IsBundle(c.bundle)

ASSUME FilesAssumption ==
    /\ \A setup \in Setups : IsSignIn(setup.auth) /\ IsCache(setup.cache)
    /\ \A a \in SignIns : IsSignIn(a)

VARIABLES
    machine, auth, cache, changes,
    pc,         \* the step of newHome, or of the command after it
    gate,       \* the cloudAuth read from auth.json
    bundle,     \* the bundle read from the cache
    warned,     \* resolutionWarnings is not empty
    home,       \* the resolution: directory and tier
    outcome,    \* what the command says
    moments     \* history: at each moment so far, the directories Codex
                \* would use if it were started then, one per way to start

env == <<machine, auth, cache, changes, moments>>
vars == <<machine, auth, cache, changes, pc, gate, bundle, warned, home, outcome,
          moments>>

Files == {"systemRequirements", "systemConfig", "managedConfig", "config", "overlay"}

Unset == "unset"        \* no file, or a file without the key
Invalid == "invalid"    \* not TOML, or a sqlite_home that is no string

CodexHome == <<"codexHome">>

\* The directory a relative value of each source is joined onto.
Base(source) ==
    CASE source \in {"systemRequirements", "systemConfig", "managedConfig"} ->
            <<"etc">>
      [] source = "environment" -> <<"cwd">>
      [] OTHER -> CodexHome

(* resolveAgainstHome: ~ expands first, an empty value is the base itself.  *)
resolveAgainstHome(source, text) ==
    CASE text = "absolute" -> <<"root", source>>
      [] text = "relative" -> Append(Base(source), "relative")
      [] text = "tilde" -> IF OsHome = "" THEN Append(Base(source), "~") ELSE <<OsHome>>
      [] OTHER -> Base(source)

NoSetting == <<>>
Setting(source, text) == IF text = Unset THEN NoSetting ELSE resolveAgainstHome(source, text)

(**************************** The cloud bundle ****************************)

NoBundle == [requirements |-> <<>>, config |-> <<>>]

(* The network may answer with an empty bundle.                             *)
ASSUME FetchableAssumption == NoBundle \in Fetchable /\ \A b \in Fetchable : IsBundle(b)

RequiredCacheFields == {"signature", "version", "cached_at", "expires_at", "bundle",
                        "fragment"}
OptionalCacheFields == {"chatgpt_user_id", "account_id"}

(* No declared field repeats, required fields have their type, optional     *)
(* ones may be absent or null.                                              *)
decodeCloudConfigBundleCache(c) ==
    /\ \A f \in RequiredCacheFields \cup OptionalCacheFields : c.fields[f] # "repeated"
    /\ \A f \in RequiredCacheFields : c.fields[f] = "string"
    /\ \A f \in OptionalCacheFields : isJSONNull(c.fields[f]) \/ c.fields[f] = "string"

\* What the signature is computed over: the payload's values as they stand.
SignedPayload(c) == <<c.version, c.expires, c.user, c.account, c.bundle>>

(* A bug to catch: the cached account is not compared, only its user.       *)
sameUser(c, a) == c.user # "none" /\ c.user = a.user

\* "none" is an identifier that is absent or null.
sameIdentity(c, a) ==
    /\ c.user # "none" /\ c.account # "none"
    /\ c.user = a.user /\ c.account = a.account

Answer(kind, b) == [kind |-> kind, bundle |-> b]

readCloudConfigBundle(c, a) ==
    CASE a.gate = "never" -> Answer("none", NoBundle)
      [] \/ a.gate = "undecidable"
         \/ a.gate = "applies" /\ "none" \in {a.user, a.account}
         \/ a.gate = "applies" /\ c.file = "missing" -> Answer("warning", NoBundle)
      [] OTHER ->
            IF \/ c.file = "unreadable"
               \/ ~decodeCloudConfigBundleCache(c)
               \/ c.signature # SignedPayload(c)
               \/ c.version # 1
            THEN Answer("error", NoBundle)
            ELSE IF ~sameIdentity(c, a) \/ c.expires <= Now
                 THEN Answer("warning", NoBundle)
                 ELSE Answer("bundle", c.bundle)

(* The first fragment declaring sqlite_home wins; all of them must parse.   *)
sqliteHomeFromFragments(fragments, source) ==
    LET set == {i \in DOMAIN fragments : fragments[i] # Unset}
    IN IF set = {} THEN NoSetting ELSE Setting(source, fragments[Least(set)])

(* The first plist that carries the key answers; a lower one is not read.   *)
PlistStop(key) ==
    LET Stop(answers) ==
            LET stops == {i \in DOMAIN answers : ~answers[i].ok \/ answers[i].found}
            IN IF stops = {} THEN NotFound ELSE answers[Least(stops)]
    IN Stop([i \in DOMAIN machine.plists |-> plistTopLevelString(machine.plists[i], key)])

sqliteHomeFromManagedPreference(key, source) == Setting(source, PlistStop(key).value)

PlistRefused(answer) == ~answer.ok \/ answer.value = Invalid

MachineFiles == Files \ {"overlay", "config"}

(* Every source is read even when a higher one wins.                        *)
SourceRefused(b) ==
    \/ \E f \in MachineFiles \cup {"config"} : machine.files[f] = Invalid
    \/ \E i \in DOMAIN b.requirements : b.requirements[i] = Invalid
    \/ \E i \in DOMAIN b.config : b.config[i] = Invalid
    \/ \E key \in {"requirements", "config"} : PlistRefused(PlistStop(key))

FileSetting(f) == Setting(f, machine.files[f])

(* A bug to catch: the first setting found wins.                            *)
lowestSetting(settings) ==
    LET set == {i \in DOMAIN settings : settings[i] # NoSetting}
    IN IF set = {} THEN NoSetting
       ELSE settings[Least(set)]

(* highestSetting: settings are listed lowest precedence first.             *)
highestSetting(settings) ==
    LET set == {i \in DOMAIN settings : settings[i] # NoSetting}
        last == CHOOSE i \in set : \A j \in set : j <= i
    IN IF set = {} THEN NoSetting ELSE settings[last]

managedRequirement(b) ==
    highestSetting(<<FileSetting("systemRequirements"),
                     sqliteHomeFromFragments(b.requirements, "cloudRequirements"),
                     sqliteHomeFromManagedPreference("requirements", "mdmRequirements")>>)

machineConfig(b) ==
    highestSetting(<<FileSetting("systemConfig"),
                     sqliteHomeFromFragments(b.config, "cloudConfig")>>)

managedConfig ==
    highestSetting(<<FileSetting("managedConfig"),
                     sqliteHomeFromManagedPreference("config", "mdmConfig")>>)

environmentSetting ==
    IF machine.environment \in {Unset, "empty"} THEN NoSetting
    ELSE Setting("environment", machine.environment)

(* resolveSQLiteDir's candidates from the winner down; tier 0 is the codex  *)
(* home itself.                                                             *)
WinnerOf(candidates) ==
    LET set == {i \in DOMAIN candidates : candidates[i] # NoSetting}
        winner == CHOOSE i \in set : \A j \in set : j <= i
    IN IF set = {} THEN [dir |-> CodexHome, tier |-> 0]
       ELSE [dir |-> candidates[winner], tier |-> winner]

resolveSQLiteDir(b) ==
    WinnerOf(<<environmentSetting, machineConfig(b), FileSetting("config"),
               managedConfig, managedRequirement(b)>>)

ManagedConfigTier == 4

(* profileSQLiteHomeDivergence: overlays matter below managed config only.  *)
Overlay == machine.files["overlay"]
OverlayDiverges ==
    /\ home.tier < ManagedConfigTier
    /\ Overlay # Unset
    /\ Setting("overlay", Overlay) # home.dir
OverlayRefused == home.tier < ManagedConfigTier /\ Overlay = Invalid

(***************************************************************************)
(* Codex, as the comments of home.go and requirements.go cite it: which     *)
(* directories its next start may use. One start is a choice of profile and *)
(* of the bundle the network delivers.                                      *)
(***************************************************************************)
Accepts == [requiredString |-> {"string"}, requiredBool |-> {"bool"},
            optionalString |-> {"absent", "null", "string"},
            optionalBool |-> {"absent", "bool"}]

SerdeStruct(s, kinds) ==
    /\ DOMAIN s = DOMAIN kinds
    /\ \A f \in DOMAIN kinds : s[f] \in Accepts[kinds[f]]

SerdeOption(s, kinds) == s = NoStruct \/ SerdeStruct(s, kinds)

CodexLoadsAuth(doc) ==
    /\ doc.object
    /\ doc.auth_mode \in AuthModes \cup {"absent"}
    /\ {doc.OPENAI_API_KEY, doc.personal_access_token} \subseteq Accepts.optionalString
    /\ SerdeOption(doc.bedrock_api_key, BedrockKeyKinds)
    /\ SerdeOption(doc.bedrock_access_keys, BedrockAccessKinds)
    /\ doc.last_refresh \in {"absent", "null", "rfc3339"}
    /\ SerdeOption(doc.tokens.struct, TokenKinds)
    /\ doc.tokens.struct # NoStruct =>
          /\ doc.tokens.jwt.parts
          /\ doc.tokens.jwt.email \in Accepts.optionalString
          /\ SerdeOption(doc.tokens.jwt.profile, [email |-> "optionalString"])
          /\ SerdeOption(doc.tokens.jwt.auth, ClaimKinds)
    /\ doc.agent_identity.struct \notin {TextStruct} =>
          SerdeOption(doc.agent_identity.struct, AgentKinds)

\* The sign-in's mode: as stated, or by the first credential there is.
CodexMode(doc) ==
    LET modes == <<"personalAccessToken", "bedrockApiKey", "bedrockAccessKeys", "apikey",
                   "chatgpt">>
        held == {i \in 1..5 :
                    \/ i = 1 /\ doc.personal_access_token = "string"
                    \/ i = 2 /\ doc.bedrock_api_key # NoStruct
                    \/ i = 3 /\ doc.bedrock_access_keys # NoStruct
                    \/ i = 4 /\ doc.OPENAI_API_KEY = "string"
                    \/ i = 5}
    IN IF doc.auth_mode # "absent" THEN doc.auth_mode ELSE modes[Least(held)]

CacheIsCurrent(c, user, account) ==
    /\ c.file = "present"
    /\ c.user = user /\ c.account = account
    /\ Now < c.expires

\* The plan, user and account of a sign-in, as Codex takes them.
CodexAccount(doc, mode) ==
    IF mode = "agentIdentity"
    THEN [plan |-> doc.agent_identity.plan, user |-> doc.agent_identity.user,
          account |-> doc.agent_identity.account]
    ELSE [plan |-> ClaimedPlan(doc.tokens.jwt), user |-> ClaimedUser(doc.tokens.jwt),
          account |-> IF isJSONNull(doc.tokens.struct.account_id) THEN "none"
                      ELSE doc.tokens.account]

DecidedOnline(doc, mode) ==
    \/ mode \in {"personalAccessToken", "headers"}
    \/ /\ mode = "agentIdentity"
       /\ \/ doc.agent_identity.struct \in {NoStruct, TextStruct}
          \/ doc.agent_identity.struct.task_id # "string"
          \/ doc.agent_identity.blankTask

Ineligible(mode) ==
    {"none", "personal"} \cup IF mode = "agentIdentity" THEN {"alias"} ELSE {}

BundlesOfAccount(account, mode, c) ==
    IF account.plan \in Ineligible(mode) THEN {NoBundle}
    ELSE IF /\ "none" \notin {account.user, account.account}
            /\ CacheIsCurrent(c, account.user, account.account)
         THEN {c.bundle} ELSE Fetchable

\* Without a sign-in it can load, or with one only the network can decide
\* on, Codex may get any bundle once that is repaired or decided.
BundlesOfSignIn(doc, mode, c) ==
    IF ~CodexLoadsAuth(doc) \/ DecidedOnline(doc, mode) THEN Fetchable \cup {NoBundle}
    ELSE IF \/ mode \in {"apikey", "bedrockApiKey", "bedrockAccessKeys"}
            \/ mode # "agentIdentity" /\ doc.tokens.struct = NoStruct
         THEN {NoBundle}
         ELSE BundlesOfAccount(CodexAccount(doc, mode), mode, c)

CodexBundles(a, c) ==
    IF a.file = "missing" THEN {NoBundle}
    ELSE BundlesOfSignIn(a.doc, CodexMode(a.doc), c)

\* Where an XML list has a string right after key.
KeyedStrings(items, key) ==
    {m \in DOMAIN items :
        /\ Tag(items[m]) = "string"
        /\ \E n \in 1..(m - 1) :
              /\ Tag(items[n]) = "key" /\ items[n][2] = key
              /\ \A j \in (n + 1)..(m - 1) : IsSkipped(items[j])}

\* Whether a list forces key, and to what: the last value it has.
Forces(list, key) ==
    IF list.binary THEN plistTopLevelString(list, key).found
    ELSE KeyedStrings(list.items, key) # {}

ForcedString(list, key) ==
    LET strings == KeyedStrings(list.items, key)
        last == CHOOSE m \in strings : \A n \in strings : n <= m
    IN IF list.binary THEN plistTopLevelString(list, key).value ELSE list.items[last][2]

FirstSet(texts) ==
    LET set == {i \in DOMAIN texts : texts[i] # Unset}
    IN IF set = {} THEN Unset ELSE texts[Least(set)]

\* The forced preference: that of the higher list that has the key.
Preference(m, key) ==
    LET lists == {i \in DOMAIN m.plists : Forces(m.plists[i], key)}
    IN IF lists = {} THEN Unset ELSE ForcedString(m.plists[Least(lists)], key)

\* All layers, highest precedence first; profile is Unset without --profile.
Layers(m, profile, b) ==
    << <<"mdmRequirements", Preference(m, "requirements")>>,
       <<"cloudRequirements", FirstSet(b.requirements)>>,
       <<"systemRequirements", m.files["systemRequirements"]>>,
       <<"mdmConfig", Preference(m, "config")>>,
       <<"managedConfig", m.files["managedConfig"]>>,
       <<"overlay", profile>>,
       <<"config", m.files["config"]>>,
       <<"cloudConfig", FirstSet(b.config)>>,
       <<"systemConfig", m.files["systemConfig"]>>,
       <<"environment", IF m.environment = "empty" THEN Unset ELSE m.environment>> >>

CodexLoads(layers, b) ==
    /\ \A i \in DOMAIN layers : layers[i][2] # Invalid
    /\ \A i \in DOMAIN b.requirements : b.requirements[i] # Invalid
    /\ \A i \in DOMAIN b.config : b.config[i] # Invalid

CodexDir(layers) ==
    LET set == {i \in DOMAIN layers : layers[i][2] # Unset}
        Directory(highest) == resolveAgainstHome(highest[1], highest[2])
    IN IF set = {} THEN CodexHome ELSE Directory(layers[Least(set)])

\* The layers of each way to start, with the bundle they are from.
Starts(m, a, c) ==
    {<<Layers(m, profile, b), b>> :
        profile \in {Unset, m.files["overlay"]}, b \in CodexBundles(a, c)}

CodexDirs(m, a, c) ==
    {CodexDir(s[1]) : s \in {s \in Starts(m, a, c) : CodexLoads(s[1], s[2])}}

(******************************* newHome **********************************)

Init ==
    /\ \E setup \in Setups : /\ machine = setup.machine
                             /\ auth = setup.auth
                             /\ cache = setup.cache
                             /\ changes = MaxChanges - setup.changes
    /\ pc = "auth"
    /\ gate = NeverApplies /\ bundle = NoBundle /\ warned = FALSE
    /\ home = [dir |-> NoSetting, tier |-> 0]
    /\ outcome = "none"
    /\ moments = {CodexDirs(machine, auth, cache)}

\* A bug to catch: the error is dropped on the way up.
FailSilently == pc' = "done" /\ UNCHANGED outcome

Fail == pc' = "done" /\ outcome' = "error"
GoTo(step) == pc' = step /\ UNCHANGED outcome

ReadAuth ==
    /\ pc = "auth"
    /\ IF auth.file = "unreadable"
       THEN Fail /\ UNCHANGED gate
       ELSE GoTo("cloud") /\ gate' = readCloudAuth(auth)
    /\ UNCHANGED <<env, bundle, warned, home>>

ReadBundle ==
    /\ pc = "cloud"
    /\ LET answer == readCloudConfigBundle(cache, gate) IN
       /\ IF answer.kind = "error" THEN Fail ELSE GoTo("sources")
       /\ bundle' = answer.bundle
       /\ warned' = (answer.kind = "warning")
    /\ UNCHANGED <<env, gate, home>>

(* The remaining sources, the choice among them and the check that an       *)
(* explicitly chosen directory is one.                                      *)
Resolve ==
    /\ pc = "sources"
    /\ IF SourceRefused(bundle)
       THEN Fail /\ UNCHANGED home
       ELSE LET chosen == resolveSQLiteDir(bundle) IN
            /\ home' = chosen
            /\ IF chosen.tier # 0 /\ chosen.dir \in machine.missing
               THEN Fail ELSE GoTo("opened")
    /\ UNCHANGED <<env, gate, bundle, warned>>

FindProject ==
    /\ pc = "opened"
    /\ pc' = "done" /\ outcome' = "found"
    /\ UNCHANGED <<env, gate, bundle, warned, home>>

(* projectAbsenceError of a project that is not in the directory.           *)
MissProject ==
    /\ pc = "opened"
    /\ pc' = "done"
    /\ outcome' = IF OverlayRefused THEN "error"
                  ELSE IF warned \/ OverlayDiverges THEN "unresolved" ELSE "absent"
    /\ UNCHANGED <<env, gate, bundle, warned, home>>

(****************** Codex and its user beside cc-port *********************)

Remember == moments' = moments \cup {CodexDirs(machine, auth', cache')}

SignIn(a) ==
    /\ changes < MaxChanges /\ pc # "done"
    /\ a # auth /\ auth' = a
    /\ changes' = changes + 1
    /\ UNCHANGED <<machine, cache>> /\ Remember

\* A start of Codex replaces a cache it cannot use by what it fetched.
Refresh(b) ==
    /\ changes < MaxChanges /\ pc # "done"
    /\ LET a == readCloudAuth(auth) IN
       /\ auth.file = "present" /\ a.gate = "applies" /\ "none" \notin {a.user, a.account}
       /\ ~CacheIsCurrent(cache, a.user, a.account)
       /\ cache' = [file |-> "present", version |-> 1, expires |-> Now + 1,
                    user |-> a.user, account |-> a.account, bundle |-> b,
                    fields |-> [f \in RequiredCacheFields \cup OptionalCacheFields |->
                                   "string"],
                    signature |-> <<1, Now + 1, a.user, a.account, b>>]
    /\ changes' = changes + 1
    /\ UNCHANGED <<machine, auth>> /\ Remember

Environment ==
    /\ \/ \E a \in SignIns : SignIn(a)
       \/ \E b \in Fetchable : Refresh(b)
    /\ UNCHANGED <<pc, gate, bundle, warned, home, outcome>>

Next == ReadAuth \/ ReadBundle \/ Resolve \/ FindProject \/ MissProject \/ Environment

Spec == Init /\ [][Next]_vars

(***************************************************************************)
(* Properties                                                              *)
(***************************************************************************)

(* Every step, tier and outcome is one the code has; a directory is chosen  *)
(* exactly when newHome got that far.                                       *)
TypeOK ==
    /\ pc \in {"auth", "cloud", "sources", "opened", "done"}
    /\ gate.gate \in {"never", "applies", "undecidable"}
    /\ home.tier \in 0..5 /\ warned \in BOOLEAN
    /\ outcome \in {"none", "error", "found", "unresolved", "absent"}
    /\ pc = "opened" => home.dir # NoSetting
    /\ (pc = "done") <=> (outcome # "none")

(* "This project is unknown to Codex" is said only of the one directory     *)
(* that every start of Codex would use, whatever its profile and bundle, at *)
(* some moment while cc-port was reading (home.go:269, projectAbsenceError).*)
AbsenceIsCertain == outcome = "absent" => {home.dir} \in moments

(* The directory a project is looked up in is one a start of Codex may use: *)
(* a home that opens is never one Codex refuses to load its configuration   *)
(* for, or would not pick under any profile and bundle.                     *)
HomeIsPossible ==
    outcome \in {"found", "unresolved", "absent"} =>
        \E dirs \in moments : home.dir \in dirs

(* An XML property list answers for a key only when it is complete, and     *)
(* with the last string under that key of its top dictionary: one cut short *)
(* anywhere, or followed by anything, is refused even if the key came early *)
(* (requirements.go:1248).                                                  *)
CompleteXML(items) ==
    \E dict, root \in DOMAIN items :
        /\ dict < root
        /\ \A i \in DOMAIN items :
              /\ Tag(items[i]) = "end" <=> i \in {dict, root}
              /\ Tag(items[i]) \notin {"text", "broken"}
              /\ i > dict /\ i # root => IsSkipped(items[i])
              /\ i > root => Tag(items[i]) = "comment"

PlistAnswersAreComplete ==
    \A i \in DOMAIN machine.plists : \A key \in {"config", "requirements"} :
        LET list == machine.plists[i]
            answer == plistTopLevelString(list, key)
        IN ~list.binary /\ answer.ok =>
              /\ CompleteXML(list.items)
              /\ answer.found = Forces(list, key)
              /\ answer.found => answer.value = ForcedString(list, key)

(* The binary reader indexes only bytes before the trailer, whatever sizes, *)
(* counts and offsets the file declares: no sum or product of them wraps.   *)
ReadsStayInFile ==
    \A i \in DOMAIN machine.plists :
        machine.plists[i].binary =>
            \A range \in IndexedRanges(machine.plists[i].plist) :
                /\ range[1] + range[3] = range[2]
                /\ range[2] <= machine.plists[i].plist.objectsEnd
=============================================================================
