------------------------------- MODULE Access -------------------------------
(***************************************************************************)
(* Who may do what through the API: the login by a signed challenge and    *)
(* the sessions (internal/api/auth.go), and what requests do once they are *)
(* let in: onboarding (stake_handlers.go), saving the settings and the     *)
(* test of an alert channel. Handlers run concurrently, and the process    *)
(* may stop at any moment.                                                 *)
(***************************************************************************)
EXTENDS Integers, Sequences

CONSTANTS
  Users,         \* addresses, each with its wallet
  Nonces,        \* bound: the nonces that are issued
  Secrets,       \* contents of POOL_SESSION_SECRET_FILE
  Settings,      \* what operators may save: the validator and the other operators
  Handlers,      \* requests that may run at a time
  NonceTTL, SessionTTL, TestInterval,
  Never,         \* the zero time
  MaxTime,       \* bound: the last moment
  MaxRequests,   \* bound: requests with a session that are let in
  MaxStops       \* bound: crashes and restarts

ASSUME AccessAssumption ==
  /\ Settings \subseteq [validator : Users, operators : SUBSET Users]
  /\ NonceTTL \in Nat /\ SessionTTL \in Nat /\ TestInterval \in Nat
  /\ Never \notin Nat
  /\ MaxTime \in Nat /\ MaxRequests \in Nat /\ MaxStops \in Nat

VARIABLES
  now,         \* the clock
  file,        \* CONFIG_FILE
  secretFile,  \* POOL_SESSION_SECRET_FILE
  \* the API process: lost when it stops
  up,          \* whether it runs
  cfg,         \* API.cfg
  nonces,      \* nonceStore.data: nonce -> expires
  testAt,      \* API.alertTestAt, for one channel
  rq,          \* the request each handler is working on
  \* outside it
  tokens,      \* the session tokens that browsers hold
  node,        \* the stake transactions that the node was given
  events,      \* operator_events: the stakes announced
  requests,    \* requests so far
  stops,       \* stops so far
  \* history
  issued,      \* nonce -> when it was issued
  logins,      \* the logins, in order
  pools,       \* staker and validator of each request to onboard
  started,     \* the secret the process was started with
  tests        \* the moments at which this process let an alert test through

disk    == <<file, secretFile>>
process == <<up, stops>>
memory  == <<cfg, nonces, testAt, rq>>
outside == <<tokens, node, events, requests>>
history == <<issued, logins, pools, started, tests>>
vars    == <<process, now, disk, memory, outside, history>>

Config == [validator : Users, operators : SUBSET Users, secret : Secrets]
Token  == [addr : Users, exp : Nat, secret : Secrets]

\* A signed transaction: whose money, to which validator, whether amount, fee and
\* height are the ones the request states, and whose signature.
Stake == [sender : Users, delegate : Users, asStated : BOOLEAN, signer : Users]

\* The body of a verify request: the wallet by signed the challenge of nonce over.
Proof == [nonce : Nonces, addr : Users, by : Users, over : Nonces]

Idle == [pc |-> "idle"]

Request ==
  [pc : {"verify"}, proof : Proof, used : Nat] \cup
  [pc : {"deliver"}] \cup
  [pc : {"broadcast", "announce"}, tx : Stake]

TypeOK ==
  /\ up \in BOOLEAN /\ stops \in 0..MaxStops
  /\ now \in 0..MaxTime
  /\ file \in Settings /\ secretFile \in Secrets
  /\ cfg \in Config
  /\ DOMAIN nonces \subseteq DOMAIN issued /\ DOMAIN issued \subseteq Nonces
  /\ testAt \in Nat \cup {Never}
  /\ rq \in [Handlers -> Request \cup {Idle}]
  /\ tokens \subseteq Token
  /\ node \subseteq Stake /\ events \subseteq Stake
  /\ requests \in 0..MaxRequests
  /\ started \in Secrets

\* The configuration that a file and a secret make.
Loaded(f, s) == [validator |-> f.validator, operators |-> f.operators, secret |-> s]

Init ==
  /\ up = TRUE /\ stops = 0
  /\ now = 0
  /\ file \in Settings /\ secretFile \in Secrets
  /\ cfg = Loaded(file, secretFile)
  /\ nonces = <<>> /\ testAt = Never /\ rq = [h \in Handlers |-> Idle]
  /\ tokens = {} /\ node = {} /\ events = {} /\ requests = 0
  /\ issued = <<>> /\ logins = <<>> /\ pools = {} /\ started = secretFile /\ tests = <<>>

With(f, k, v)  == [x \in DOMAIN f \cup {k} |-> IF x = k THEN v ELSE f[x]]
Without(f, k)  == [x \in DOMAIN f \ {k} |-> f[x]]

Work(h, r)     == rq' = [rq EXCEPT ![h] = r]
End(h)         == Work(h, Idle)
Serving(h, pc) == up /\ rq[h].pc = pc

-----------------------------------------------------------------------------
(* Login.                                                                  *)

\* handleAuthChallenge: a random nonce, never the same twice.
IssueNonce(n) ==
  /\ up
  /\ n \notin DOMAIN issued
  /\ nonces' = With(nonces, n, now + NonceTTL)
  /\ issued' = With(issued, n, now)
  /\ UNCHANGED <<process, now, disk, cfg, testAt, rq, outside, logins, pools, started, tests>>

\* Mutant: a nonce is deleted only when it has expired.
ConsumeExpired(n) == IF n \in DOMAIN nonces /\ now <= nonces[n] THEN nonces ELSE Without(nonces, n)

\* consume deletes the nonce in every case.
Consume(n) == Without(nonces, n)

\* handleAuthVerify to the end of consume, which holds the lock: an unknown or
\* expired nonce ends the request.
VerifyLogin(h, proof) ==
  /\ Serving(h, "idle")
  /\ proof.over \in DOMAIN issued
  /\ nonces' = Consume(proof.nonce)
  /\ IF proof.nonce \in DOMAIN nonces /\ now <= nonces[proof.nonce]
     THEN Work(h, [pc |-> "verify", proof |-> proof, used |-> now])
     ELSE UNCHANGED rq
  /\ UNCHANGED <<process, now, disk, cfg, testAt, outside, history>>

\* VerifyMessageFrom: the key belongs to the address, and signed this challenge.
Verified(proof) == proof.by = proof.addr /\ proof.over = proof.nonce

\* Mutant: the lifetime is subtracted from the clock.
NewTokenBackdated(addr) == [addr |-> addr, exp |-> now - SessionTTL, secret |-> cfg.secret]

\* issueSession.
NewToken(addr) == [addr |-> addr, exp |-> now + SessionTTL, secret |-> cfg.secret]

\* The rest of handleAuthVerify: a good signature buys a token.
IssueSession(h) ==
  /\ Serving(h, "verify")
  /\ End(h)
  /\ LET proof == rq[h].proof
         t     == NewToken(proof.addr)
     IN  IF Verified(proof)
         THEN /\ tokens' = tokens \cup {t}
              /\ logins' = Append(logins, [proof |-> proof, used |-> rq[h].used, at |-> now,
                                           secret |-> started, token |-> t])
         ELSE UNCHANGED <<tokens, logins>>
  /\ UNCHANGED <<process, now, disk, cfg, nonces, testAt, node, events, requests, issued,
                 pools, started, tests>>

-----------------------------------------------------------------------------
(* Requests with a session.                                                *)

\* Mutant: the expiry is not looked at.
ParseSessionForever(t) == t.secret = cfg.secret

\* parseSession: the signature is by the secret of the running configuration.
ParseSession(t) == t.secret = cfg.secret /\ now <= t.exp

\* requireSession: a request of addr is let in.
RequireSession(h, t) ==
  /\ Serving(h, "idle")
  /\ requests < MaxRequests
  /\ ParseSession(t)
  /\ requests' = requests + 1

\* requireOperator.
RequireOperator(h, t) ==
  /\ RequireSession(h, t)
  /\ t.addr = cfg.validator \/ t.addr \in cfg.operators

\* Mutant: the configuration is taken as it is loaded, with the secret file read
\* again.
ApplyReloaded(f) == Loaded(f, secretFile)

\* applyLiveConfig: the file has no session secret; the one in use is carried over.
ApplyLiveConfig(f) == Loaded(f, cfg.secret)

\* A save, in one step: Activation has the steps it is made of.
SaveSettings(h, t, f) ==
  /\ RequireOperator(h, t)
  /\ file' = f
  /\ cfg' = ApplyLiveConfig(f)
  /\ UNCHANGED <<process, now, secretFile, nonces, testAt, rq, tokens, node, events, history>>

-----------------------------------------------------------------------------
(* The operator's alert test.                                              *)

\* Mutant: the moment is noted by the delivery.
NoteTestLate == testAt' = testAt

NoteTest == testAt' = now

\* The limit of handleOperatorAlertTest, under alertTestMu: a test too early is
\* refused.
TestAlert(h, t) ==
  /\ RequireOperator(h, t)
  /\ testAt # Never => now - testAt >= TestInterval
  /\ NoteTest
  /\ tests' = Append(tests, now)
  /\ Work(h, [pc |-> "deliver"])
  /\ UNCHANGED <<process, now, disk, cfg, nonces, tokens, node, events, issued, logins, pools,
                 started>>

\* Send takes its time, and may fail.
DeliverTest(h) ==
  /\ Serving(h, "deliver")
  /\ End(h)
  /\ UNCHANGED <<process, now, disk, cfg, nonces, testAt, outside, history>>

-----------------------------------------------------------------------------
(* Onboarding: the wallet signs what was quoted, and the API sends it on.  *)

\* Mutant: the staking payload, which names the validator, is not compared.
MatchesOutside(tx, addr) == tx.sender = addr /\ tx.asStated /\ tx.signer = tx.sender

\* stakeTxMatches against what the API would build for this staker now, and
\* proof.Verify.
StakeTxMatches(tx, addr) ==
  /\ tx.sender = addr /\ tx.delegate = cfg.validator /\ tx.asStated
  /\ tx.signer = tx.sender

\* handleStakeSubmit up to the broadcast: another transaction is refused.
SubmitStake(h, t, tx) ==
  /\ RequireSession(h, t)
  /\ StakeTxMatches(tx, t.addr)
  /\ Work(h, [pc |-> "broadcast", tx |-> tx])
  /\ pools' = pools \cup {<<t.addr, cfg.validator>>}
  /\ UNCHANGED <<process, now, disk, cfg, nonces, testAt, tokens, node, events, issued, logins,
                 started, tests>>

\* Mutant: the event is recorded whatever the node answered.
AfterAnyAnswer(h, ok) == Work(h, [pc |-> "announce", tx |-> rq[h].tx])

AfterAnswer(h, ok) == IF ok THEN Work(h, [pc |-> "announce", tx |-> rq[h].tx]) ELSE End(h)

\* SendRawTransaction: with an answer the node has the transaction; without one, it may.
BroadcastStake(h) ==
  /\ Serving(h, "broadcast")
  /\ \E ok \in BOOLEAN, arrived \in BOOLEAN :
       /\ ok => arrived
       /\ node' = IF arrived THEN node \cup {rq[h].tx} ELSE node
       /\ AfterAnswer(h, ok)
  /\ UNCHANGED <<process, now, disk, cfg, nonces, testAt, tokens, events, requests, history>>

\* InsertOperatorEvent; its error is logged.
InsertOperatorEvent(h) ==
  /\ Serving(h, "announce")
  /\ events' \in {events, events \cup {rq[h].tx}}
  /\ End(h)
  /\ UNCHANGED <<process, now, disk, cfg, nonces, testAt, tokens, node, requests, history>>

-----------------------------------------------------------------------------
(* The processes and the clock.                                            *)

\* main and New: the configuration is loaded, the rest of the memory is empty.
StartApi ==
  /\ ~up /\ up' = TRUE
  /\ cfg' = Loaded(file, secretFile)
  /\ started' = secretFile
  /\ nonces' = <<>> /\ testAt' = Never /\ tests' = <<>>
  /\ UNCHANGED <<now, stops, disk, rq, outside, issued, logins, pools>>

\* A crash, kill or restart: requests end with their process.
StopApi ==
  /\ up /\ up' = FALSE
  /\ stops < MaxStops /\ stops' = stops + 1
  /\ rq' = [h \in Handlers |-> Idle]
  /\ UNCHANGED <<now, disk, cfg, nonces, testAt, outside, history>>

\* The operator replaces the secret; the process reads it when it starts.
RotateSecret(s) ==
  /\ s # secretFile
  /\ secretFile' = s
  /\ UNCHANGED <<process, now, file, memory, outside, history>>

Elapse ==
  /\ now < MaxTime
  /\ now' = now + 1
  /\ UNCHANGED <<process, disk, memory, outside, history>>

-----------------------------------------------------------------------------
Arrive(h) ==
  \/ \E proof \in Proof : VerifyLogin(h, proof)
  \/ \E t \in tokens : \/ \E tx \in Stake : SubmitStake(h, t, tx)
                       \/ \E f \in Settings : SaveSettings(h, t, f)
                       \/ TestAlert(h, t)

Handle(h) == IssueSession(h) \/ DeliverTest(h) \/ BroadcastStake(h) \/ InsertOperatorEvent(h)

Next ==
  \/ \E n \in Nonces : IssueNonce(n)
  \/ \E h \in Handlers : Arrive(h) \/ Handle(h)
  \/ StartApi \/ StopApi
  \/ \E s \in Secrets : RotateSecret(s)
  \/ Elapse

Spec == Init /\ [][Next]_vars

-----------------------------------------------------------------------------
(* What the API guarantees.                                                *)

\* Every session was bought with a challenge of its own, answered in time and
\* signed by the wallet whose address the session carries, however many requests
\* presented the nonce at once or failed with it, and across restarts
\* (nonceStore, "single use, whether or not verification against it later
\* succeeds").
LoginsProven ==
  \A i \in DOMAIN logins :
    LET p == logins[i].proof
    IN  /\ p.by = p.addr /\ p.over = p.nonce
        /\ logins[i].used <= issued[p.nonce] + NonceTTL
        /\ \A j \in DOMAIN logins : i # j => p.nonce # logins[j].proof.nonce

\* A token is good for exactly SessionTTL after its login, through saves of the
\* settings and restarts of the process, unless the process was started with
\* another secret (issueSession: "rotating it invalidates every outstanding
\* session at once").
SessionsLast ==
  \A i \in DOMAIN logins :
    ParseSession(logins[i].token) <=>
      now <= logins[i].at + SessionTTL /\ logins[i].secret = started

\* Two alert tests that the API lets through are TestInterval apart, however many
\* operators ask at once (handleOperatorAlertTest).
TestsSpaced ==
  \A i \in DOMAIN tests : i > 1 => tests[i] - tests[i - 1] >= TestInterval

\* What reaches the node was signed by the staker, who had logged in and asked to
\* be onboarded, and delegates to the validator the pool had then; and a stake that
\* the event log announces did reach the node, also when answers are lost and the
\* staker submits again (handleStakeSubmit).
StakesAreOwn ==
  /\ \A tx \in node :
       /\ tx.signer = tx.sender
       /\ <<tx.sender, tx.delegate>> \in pools
       /\ \E i \in DOMAIN logins : logins[i].proof.addr = tx.sender
  /\ events \subseteq node
=============================================================================
