----------------------------- MODULE ConfigStore -----------------------------
(***************************************************************************)
(* The configuration file and those who write it: the setup assistant and  *)
(* the operator's settings page through the API process                    *)
(* (internal/configstore/store.go, setup_handlers.go,                      *)
(* operator_settings_handlers.go), and an editor in the operator's hands.  *)
(* Requests run concurrently, and nothing but the hash that a request      *)
(* expects keeps them apart.                                               *)
(***************************************************************************)
EXTENDS Integers, Sequences, FiniteSets

CONSTANTS
  Drafts,       \* values of the editable part that may be sent
  Settings,     \* those that ValidateEditable accepts
  ApiSettings,  \* those that ValidateAPI accepts as well: they have an api_addr
  Secrets,      \* alert tokens
  NoSecret,     \* an empty token
  NoFile,       \* no file; also a nil configuration, and the hash ""
  Broken,       \* a file that does not parse
  Handlers,     \* requests that may run at a time
  MaxRequests,  \* bound: requests that change the file
  MaxTrouble    \* bound: edits by hand, and crashes, restarts, failed statements
                \* and lost answers, together

\* dry_run stands for the fields that the settings page does not manage.
Config == [editable : Settings, secret : Secrets \cup {NoSecret}, dry_run : BOOLEAN]

ASSUME ConfigStoreAssumption ==
  /\ MaxRequests \in Nat /\ MaxTrouble \in Nat
  /\ Settings \subseteq Drafts /\ ApiSettings \subseteq Settings
  /\ NoSecret \notin Secrets
  /\ NoFile \notin Config /\ Broken \notin Config /\ NoFile # Broken

VARIABLES
  file,           \* CONFIG_FILE
  revisions,      \* config_revisions: the settings of each, which is all that
                  \* a redacted snapshot holds
  rq,             \* the request each handler is working on
  apiCfg,         \* API.cfg
  setupOnly,      \* API.setupOnly: only the setup routes are served
  setupComplete,  \* API.setupComplete
  setupSession,   \* API.setupSessions has the operator's session
  requests,       \* requests so far
  edits,          \* edits by hand so far
  faults          \* faults so far

api   == <<rq, apiCfg, setupOnly, setupComplete, setupSession>>
store == <<file, revisions, api, requests, edits, faults>>

\* ConfigHash: of the settings and the secrets; "" without a file.
ConfigHash(c) == IF c = NoFile THEN NoFile ELSE <<c.editable, c.secret>>

Idle == [pc |-> "idle"]

Request == [pc : {"check", "write", "record", "load", "swap"}, setup : BOOLEAN,
            expected : {NoFile} \cup (Settings \X (Secrets \cup {NoSecret})),
            editable : Drafts, secret : Secrets \cup {NoSecret},
            cfg : Config \cup {NoFile}]

StoreTypeOK ==
  /\ file \in Config \cup {NoFile, Broken}
  /\ revisions \in Seq(Settings)
  /\ rq \in [Handlers -> Request \cup {Idle}]
  /\ apiCfg \in Config \cup {NoFile}
  /\ setupOnly \in BOOLEAN /\ setupComplete \in BOOLEAN /\ setupSession \in BOOLEAN
  /\ requests \in 0..MaxRequests /\ edits \in 0..MaxTrouble /\ faults \in 0..MaxTrouble

StoreInit ==
  /\ file \in {NoFile} \cup {c \in Config : c.secret = NoSecret}
  /\ revisions \in IF file = NoFile THEN {<<>>} ELSE {<<s>> : s \in Settings}
  \* cmd/api serves the setup routes if there is no file
  /\ rq = [h \in Handlers |-> Idle]
  /\ apiCfg = file
  /\ setupOnly = (file = NoFile)
  /\ setupComplete = FALSE /\ setupSession = FALSE
  /\ requests = 0 /\ edits = 0 /\ faults = 0

-----------------------------------------------------------------------------
(* Requests arrive.                                                        *)

Start(h, setup, expected, s, x) ==
  /\ rq[h] = Idle
  /\ requests < MaxRequests
  /\ requests' = requests + 1
  /\ rq' = [rq EXCEPT ![h] = [pc |-> "check", setup |-> setup, expected |-> expected,
                              editable |-> s, secret |-> x, cfg |-> NoFile]]
  /\ UNCHANGED <<file, revisions, apiCfg, setupOnly, setupComplete, setupSession, edits, faults>>

\* PUT settings: the page shows the file and its hash, and sends the hash back.
SaveSettings(h, s, x) ==
  /\ ~setupOnly
  /\ file \in Config
  /\ Start(h, FALSE, ConfigHash(file), s, x)

\* Restore: the settings of a revision, and no secrets.
RestoreRevision(h, i) ==
  /\ ~setupOnly
  /\ file \in Config
  /\ Start(h, FALSE, ConfigHash(file), revisions[i], NoSecret)

\* POST setup/session with the setup token, within the limit on failed attempts.
SetupSession ==
  /\ setupOnly
  /\ ~setupComplete
  /\ ~setupSession
  /\ setupSession' = TRUE
  /\ UNCHANGED <<file, revisions, rq, apiCfg, setupOnly, setupComplete, requests, edits, faults>>

SessionExpires ==
  /\ setupSession
  /\ setupSession' = FALSE
  /\ UNCHANGED <<file, revisions, rq, apiCfg, setupOnly, setupComplete, requests, edits, faults>>

\* requireSetup: setup is open, and the request has a session.
RequireSetup == setupOnly /\ ~setupComplete /\ setupSession

\* POST setup/complete.
SetupRequest(h, s, x) ==
  /\ RequireSetup
  /\ Start(h, TRUE, NoFile, s, x)

-----------------------------------------------------------------------------
(* Store.Save                                                              *)

Step(h, pc, cfg) == rq' = [rq EXCEPT ![h] = [rq[h] EXCEPT !.pc = pc, !.cfg = cfg]]

End(h) == rq' = [rq EXCEPT ![h] = Idle]

ValidateEditable(s) == s \in Settings

\* LoadOptional fails on a file that does not parse.
LoadOptional == file # Broken

\* The settings are validated, the file is read, and its hash is compared with the
\* one expected: the request ends there with an error, or goes on.
CheckRevision(h) ==
  /\ rq[h].pc = "check"
  /\ IF ValidateEditable(rq[h].editable) /\ LoadOptional /\ ConfigHash(file) = rq[h].expected
     THEN Step(h, "write", file)
     ELSE End(h)
  /\ UNCHANGED <<file, revisions, apiCfg, setupOnly, setupComplete, setupSession, requests, edits, faults>>

\* Mutant: only what the page shows is written.
MergedEditableOnly(r) == [editable |-> r.editable, secret |-> r.secret, dry_run |-> FALSE]

\* The new settings over what was read: unmanaged fields stay, and so does a
\* secret that is sent empty.
Merged(r) ==
  [editable |-> r.editable,
   secret   |-> IF r.secret # NoSecret THEN r.secret
                ELSE IF r.cfg = NoFile THEN NoSecret ELSE r.cfg.secret,
   dry_run  |-> r.cfg # NoFile /\ r.cfg.dry_run]

\* atomicWrite: a temporary file renamed over the old one.
WriteFile(h) ==
  /\ rq[h].pc = "write"
  /\ file' = Merged(rq[h])
  /\ Step(h, "record", NoFile)
  /\ UNCHANGED <<revisions, apiCfg, setupOnly, setupComplete, setupSession, requests, edits, faults>>

\* InsertConfigRevision; after it, handleSetupComplete closes the setup and drops
\* its sessions.
InsertConfigRevision(h) ==
  /\ rq[h].pc = "record"
  /\ revisions' = Append(revisions, rq[h].editable)
  /\ setupComplete' = (setupComplete \/ rq[h].setup)
  /\ setupSession' = (setupSession /\ ~rq[h].setup)
  /\ Step(h, "load", NoFile)
  /\ UNCHANGED <<file, apiCfg, setupOnly, requests, edits, faults>>

\* The write or the insert fails: the request ends with an error, and what is
\* done is not undone.
SaveFails(h) ==
  /\ rq[h].pc \in {"write", "record"}
  /\ edits + faults < MaxTrouble
  /\ faults' = faults + 1
  /\ End(h)
  /\ UNCHANGED <<file, revisions, apiCfg, setupOnly, setupComplete, setupSession, requests, edits>>

\* The file is valid for the request. applyLiveConfig takes any file that parses;
\* tryActivateFromStore wants ValidateAPI, and its error goes nowhere.
Usable(r) == file \in Config /\ (r.setup => file.editable \in ApiSettings)

\* applyLiveConfig and tryActivateFromStore read the file again, outside the lock.
LoadWritten(h) ==
  /\ rq[h].pc = "load"
  /\ IF Usable(rq[h]) THEN Step(h, "swap", file) ELSE End(h)
  /\ UNCHANGED <<file, revisions, apiCfg, setupOnly, setupComplete, setupSession, requests, edits, faults>>

\* Mutant: the configuration is swapped, the routes are not.
StillSetup(r) == setupOnly

\* ActivateConfigured serves the full routes.
SetupAfter(r) == setupOnly /\ ~r.setup

SwapConfig(h) ==
  /\ rq[h].pc = "swap"
  /\ apiCfg' = rq[h].cfg
  /\ setupOnly' = SetupAfter(rq[h])
  /\ End(h)
  /\ UNCHANGED <<file, revisions, setupComplete, setupSession, requests, edits, faults>>

-----------------------------------------------------------------------------
\* The API process stops and starts; with a broken file it does not come up. The
\* deployments set POOL_API_ADDR, which stands in for an api_addr that is missing.
RestartAPI ==
  /\ LoadOptional
  /\ edits + faults < MaxTrouble
  /\ faults' = faults + 1
  /\ rq' = [h \in Handlers |-> Idle]
  /\ apiCfg' = file
  /\ setupOnly' = (file = NoFile)
  /\ setupComplete' = FALSE /\ setupSession' = FALSE
  /\ UNCHANGED <<file, revisions, requests, edits>>

\* The operator edits the file in place.
EditByHand(c) ==
  /\ edits + faults < MaxTrouble
  /\ edits' = edits + 1
  /\ file' = c
  /\ UNCHANGED <<revisions, api, requests, faults>>

-----------------------------------------------------------------------------
Handle(h) ==
  CheckRevision(h) \/ WriteFile(h) \/ InsertConfigRevision(h) \/ LoadWritten(h) \/ SwapConfig(h)

StoreNext ==
  \/ \E h \in Handlers :
       \/ Handle(h) \/ SaveFails(h)
       \/ \E s \in Drafts, x \in Secrets \cup {NoSecret} :
            SaveSettings(h, s, x) \/ SetupRequest(h, s, x)
       \/ \E i \in DOMAIN revisions : RestoreRevision(h, i)
  \/ SetupSession \/ SessionExpires \/ RestartAPI
  \/ \E c \in Config \cup {Broken} : EditByHand(c)
=============================================================================
