---------------------------- MODULE AccessProofs ----------------------------
(***************************************************************************)
(* Proofs about Access, for any set of users, handlers, nonces and         *)
(* settings, any lifetimes, and any number of requests and restarts.       *)
(***************************************************************************)
EXTENDS Access, TLAPS

-----------------------------------------------------------------------------
(* The inductive invariant.                                                *)

Login == [proof : Proof, used : Nat, at : Nat, secret : Secrets, token : Token]

\* The history that TypeOK says nothing of.
HistoryOK ==
  /\ \A n \in DOMAIN issued : issued[n] \in Nat
  /\ logins \in Seq(Login)
  /\ tests \in Seq(Nat)

\* A nonce that consume has deleted: it was issued, and is not there any more.
Spent(n) == n \in DOMAIN issued /\ n \notin DOMAIN nonces

\* A nonce that is there expires NonceTTL after it was issued.
NoncesExpire == \A n \in DOMAIN nonces : nonces[n] = issued[n] + NonceTTL

\* A request that is past consume holds a nonce of its own, spent in time, that
\* no login was bought with.
VerifyOwnsNonce ==
  \A h \in Handlers : rq[h].pc = "verify" =>
    /\ Spent(rq[h].proof.nonce)
    /\ rq[h].used <= issued[rq[h].proof.nonce] + NonceTTL
    /\ \A g \in Handlers : g # h /\ rq[g].pc = "verify" =>
         rq[g].proof.nonce # rq[h].proof.nonce
    /\ \A i \in DOMAIN logins : logins[i].proof.nonce # rq[h].proof.nonce

\* A login has spent its nonce.
LoginsSpent == \A i \in DOMAIN logins : Spent(logins[i].proof.nonce)

\* What a token says, and that the secret in use is the one of the start.
TokensFromLogins ==
  /\ cfg.secret = started
  /\ \A i \in DOMAIN logins :
       /\ logins[i].token.exp = logins[i].at + SessionTTL
       /\ logins[i].token.secret = logins[i].secret
  /\ \A t \in tokens : \E i \in DOMAIN logins : logins[i].proof.addr = t.addr

\* The limit's moment is that of the last test.
TestNoted == testAt = IF tests = <<>> THEN Never ELSE tests[Len(tests)]

\* A transaction that the API may send: its sender signed it, logged in and asked
\* for this validator.
Own(tx) ==
  /\ tx.signer = tx.sender
  /\ <<tx.sender, tx.delegate>> \in pools
  /\ \E i \in DOMAIN logins : logins[i].proof.addr = tx.sender

\* So are those that requests carry, and one that is announced was sent.
RequestsOwn ==
  /\ \A h \in Handlers : rq[h].pc \in {"broadcast", "announce"} => Own(rq[h].tx)
  /\ \A h \in Handlers : rq[h].pc = "announce" => rq[h].tx \in node

IInv ==
  /\ TypeOK /\ HistoryOK
  /\ NoncesExpire /\ VerifyOwnsNonce /\ LoginsSpent /\ LoginsProven
  /\ TokensFromLogins
  /\ TestNoted /\ TestsSpaced
  /\ RequestsOwn /\ StakesAreOwn

-----------------------------------------------------------------------------
(* The steps.                                                              *)

\* The steps in which nothing but the clock or the secret file changes.
Quiet == (\E s \in Secrets : RotateSecret(s)) \/ Elapse \/ UNCHANGED vars

\* A step is one of the handlers' or the processes' steps, or one that only moves time or
\* the secret file.
LEMMA NextCases ==
  ASSUME [Next]_vars
  PROVE  \/ Quiet
         \/ \E n \in Nonces : IssueNonce(n)
         \/ \E h \in Handlers, proof \in Proof : VerifyLogin(h, proof)
         \/ \E h \in Handlers : IssueSession(h)
         \/ \E h \in Handlers, t \in tokens, f \in Settings : SaveSettings(h, t, f)
         \/ \E h \in Handlers, t \in tokens : TestAlert(h, t)
         \/ \E h \in Handlers : DeliverTest(h)
         \/ \E h \in Handlers, t \in tokens, tx \in Stake : SubmitStake(h, t, tx)
         \/ \E h \in Handlers : BroadcastStake(h)
         \/ \E h \in Handlers : InsertOperatorEvent(h)
         \/ StartApi
         \/ StopApi
BY DEF Next, Quiet, Arrive, Handle

\* Time, and a new secret in its file, change nothing that a request has or did.
LEMMA QuietFacts ==
  ASSUME Quiet
  PROVE  UNCHANGED <<up, stops, file, cfg, nonces, testAt, rq, tokens, node, events, requests,
                     issued, logins, pools, started, tests>>
BY DEF Quiet, RotateSecret, Elapse, vars, process, disk, memory, outside, history

\* A request read back is one of the four kinds.
LEMMA RequestType ==
  ASSUME TypeOK, NEW h \in Handlers
  PROVE  /\ rq[h].pc = "verify" => rq[h].proof \in Proof /\ rq[h].used \in Nat
         /\ rq[h].pc \in {"broadcast", "announce"} => rq[h].tx \in Stake
<1>1. rq[h] \in Request \cup {Idle}
  BY DEF TypeOK
<1> QED
  BY <1>1 DEF Request, Idle

\* A handler that changes what it works on leaves the others alone.
LEMMA WorkFacts ==
  ASSUME TypeOK, NEW h \in Handlers, NEW r, Work(h, r)
  PROVE  /\ rq'[h] = r
         /\ \A g \in Handlers : g # h => rq'[g] = rq[g]
         /\ r \in Request \cup {Idle} => rq' \in [Handlers -> Request \cup {Idle}]
BY DEF Work, TypeOK

\* Every configuration in use is made of settings that were saved and a secret.
LEMMA LoadedType ==
  ASSUME NEW f \in Settings, NEW s \in Secrets
  PROVE  Loaded(f, s) \in Config /\ Loaded(f, s).secret = s
BY AccessAssumption DEF Loaded, Config

\* A stored nonce, and a deleted one.
LEMMA NonceMap ==
  ASSUME NEW f, NEW k, NEW v
  PROVE  /\ DOMAIN With(f, k, v) = DOMAIN f \cup {k}
         /\ With(f, k, v)[k] = v
         /\ \A x \in DOMAIN f : x # k => With(f, k, v)[x] = f[x]
         /\ DOMAIN Without(f, k) = DOMAIN f \ {k}
         /\ \A x \in DOMAIN f : x # k => Without(f, k)[x] = f[x]
BY DEF With, Without

\* A session token read back, and a new one.
LEMMA NewTokenType ==
  ASSUME TypeOK, NEW a \in Users, NEW t, t = NewToken(a)
  PROVE  t \in Token /\ t.addr = a /\ t.exp = now + SessionTTL /\ t.secret = cfg.secret
<1>1. cfg.secret \in Secrets
  BY DEF TypeOK, Config
<1>2. now + SessionTTL \in Nat
  BY AccessAssumption DEF TypeOK
<1> QED
  BY <1>1, <1>2 DEF NewToken, Token

-----------------------------------------------------------------------------
(* The typing of every step.                                               *)

\* Every step keeps the types; HistoryOK says what the logins and tests record.
LEMMA TypeNext ==
  ASSUME TypeOK, HistoryOK, [Next]_vars
  PROVE  TypeOK'
<1>1. CASE Quiet
  <2>1. now' \in 0..MaxTime /\ secretFile' \in Secrets
    BY <1>1, AccessAssumption DEF Quiet, RotateSecret, Elapse, vars, disk, TypeOK
  <2> QED
    BY <1>1, <2>1, QuietFacts DEF TypeOK
<1>2. ASSUME NEW n \in Nonces, IssueNonce(n)
      PROVE  TypeOK'
  <2>1. DOMAIN nonces' = DOMAIN nonces \cup {n} /\ DOMAIN issued' = DOMAIN issued \cup {n}
    BY <1>2, NonceMap DEF IssueNonce
  <2>2. UNCHANGED <<up, stops, now, file, secretFile, cfg, testAt, rq, tokens, node, events,
                    requests, started>>
    BY <1>2 DEF IssueNonce, process, disk, outside
  <2> QED
    BY <2>1, <2>2 DEF TypeOK
<1>3. ASSUME NEW h \in Handlers, NEW proof \in Proof, VerifyLogin(h, proof)
      PROVE  TypeOK'
  <2>1. DOMAIN nonces' \subseteq DOMAIN nonces
    BY <1>3 DEF VerifyLogin, Consume, Without
  <2>2. rq' \in [Handlers -> Request \cup {Idle}]
    <3>1. rq' = rq \/ Work(h, [pc |-> "verify", proof |-> proof, used |-> now])
      BY <1>3 DEF VerifyLogin
    <3>2. [pc |-> "verify", proof |-> proof, used |-> now] \in Request
      BY DEF Request, TypeOK
    <3> QED
      BY <3>1, <3>2, WorkFacts DEF TypeOK
  <2>3. UNCHANGED <<up, stops, now, file, secretFile, cfg, testAt, tokens, node, events,
                    requests, issued, started>>
    BY <1>3 DEF VerifyLogin, process, disk, outside, history
  <2> QED
    BY <2>1, <2>2, <2>3 DEF TypeOK
<1>4. ASSUME NEW h \in Handlers, IssueSession(h)
      PROVE  TypeOK'
  <2>1. rq' \in [Handlers -> Request \cup {Idle}]
    BY <1>4, WorkFacts DEF IssueSession, End
  <2>2. PICK t : t = NewToken(rq[h].proof.addr)
    OBVIOUS
  <2>3. t \in Token
    <3>1. rq[h].proof.addr \in Users
      BY <1>4, RequestType DEF IssueSession, Serving, Proof
    <3> QED
      BY <2>2, <3>1, NewTokenType
  <2>4. tokens' = tokens \/ tokens' = tokens \cup {t}
    BY <1>4, <2>2 DEF IssueSession
  <2>5. UNCHANGED <<up, stops, now, file, secretFile, cfg, nonces, testAt, node, events,
                    requests, issued, started>>
    BY <1>4 DEF IssueSession, process, disk
  <2> QED
    BY <2>1, <2>3, <2>4, <2>5 DEF TypeOK
<1>5. ASSUME NEW h \in Handlers, NEW t \in tokens, NEW f \in Settings, SaveSettings(h, t, f)
      PROVE  TypeOK'
  <2>1. cfg' \in Config
    <3>1. cfg.secret \in Secrets
      BY DEF TypeOK, Config
    <3> QED
      BY <1>5, <3>1, LoadedType DEF SaveSettings, ApplyLiveConfig
  <2>2. file' \in Settings
    BY <1>5 DEF SaveSettings
  <2>3. requests' \in 0..MaxRequests
    BY <1>5, AccessAssumption DEF SaveSettings, RequireOperator, RequireSession, TypeOK
  <2>4. UNCHANGED <<up, stops, now, secretFile, nonces, testAt, rq, tokens, node, events,
                    issued, started>>
    BY <1>5 DEF SaveSettings, process, history
  <2> QED
    BY <2>1, <2>2, <2>3, <2>4 DEF TypeOK
<1>6. ASSUME NEW h \in Handlers, NEW t \in tokens, TestAlert(h, t)
      PROVE  TypeOK'
  <2>1. rq' \in [Handlers -> Request \cup {Idle}]
    <3>1. [pc |-> "deliver"] \in Request
      BY DEF Request
    <3> QED
      BY <1>6, <3>1, WorkFacts DEF TestAlert
  <2>2. requests' \in 0..MaxRequests
    BY <1>6, AccessAssumption DEF TestAlert, RequireOperator, RequireSession, TypeOK
  <2>3. testAt' \in Nat
    BY <1>6 DEF TestAlert, NoteTest, TypeOK
  <2>4. UNCHANGED <<up, stops, now, file, secretFile, cfg, nonces, tokens, node, events,
                    issued, started>>
    BY <1>6 DEF TestAlert, process, disk
  <2> QED
    BY <2>1, <2>2, <2>3, <2>4 DEF TypeOK
<1>7. ASSUME NEW h \in Handlers, DeliverTest(h)
      PROVE  TypeOK'
  <2>1. rq' \in [Handlers -> Request \cup {Idle}]
    BY <1>7, WorkFacts DEF DeliverTest, End
  <2>2. UNCHANGED <<up, stops, now, file, secretFile, cfg, nonces, testAt, tokens, node, events,
                    requests, issued, started>>
    BY <1>7 DEF DeliverTest, process, disk, outside, history
  <2> QED
    BY <2>1, <2>2 DEF TypeOK
<1>8. ASSUME NEW h \in Handlers, NEW t \in tokens, NEW tx \in Stake, SubmitStake(h, t, tx)
      PROVE  TypeOK'
  <2>1. rq' \in [Handlers -> Request \cup {Idle}]
    <3>1. [pc |-> "broadcast", tx |-> tx] \in Request
      BY DEF Request
    <3> QED
      BY <1>8, <3>1, WorkFacts DEF SubmitStake
  <2>2. requests' \in 0..MaxRequests
    BY <1>8, AccessAssumption DEF SubmitStake, RequireSession, TypeOK
  <2>3. UNCHANGED <<up, stops, now, file, secretFile, cfg, nonces, testAt, tokens, node, events,
                    issued, started>>
    BY <1>8 DEF SubmitStake, process, disk
  <2> QED
    BY <2>1, <2>2, <2>3 DEF TypeOK
<1>9. ASSUME NEW h \in Handlers, BroadcastStake(h)
      PROVE  TypeOK'
  <2>1. rq[h].tx \in Stake
    BY <1>9, RequestType DEF BroadcastStake, Serving
  <2>2. rq' \in [Handlers -> Request \cup {Idle}]
    <3>1. Work(h, [pc |-> "announce", tx |-> rq[h].tx]) \/ Work(h, Idle)
      BY <1>9 DEF BroadcastStake, AfterAnswer, End
    <3>2. [pc |-> "announce", tx |-> rq[h].tx] \in Request
      BY <2>1 DEF Request
    <3> QED
      BY <3>1, <3>2, WorkFacts
  <2>3. node' = node \/ node' = node \cup {rq[h].tx}
    BY <1>9 DEF BroadcastStake
  <2>4. UNCHANGED <<up, stops, now, file, secretFile, cfg, nonces, testAt, tokens, events,
                    requests, issued, started>>
    BY <1>9 DEF BroadcastStake, process, disk, history
  <2> QED
    BY <2>1, <2>2, <2>3, <2>4 DEF TypeOK
<1>10. ASSUME NEW h \in Handlers, InsertOperatorEvent(h)
       PROVE  TypeOK'
  <2>1. rq[h].tx \in Stake
    BY <1>10, RequestType DEF InsertOperatorEvent, Serving
  <2>2. rq' \in [Handlers -> Request \cup {Idle}]
    BY <1>10, WorkFacts DEF InsertOperatorEvent, End
  <2>3. events' = events \/ events' = events \cup {rq[h].tx}
    BY <1>10 DEF InsertOperatorEvent
  <2>4. UNCHANGED <<up, stops, now, file, secretFile, cfg, nonces, testAt, tokens, node,
                    requests, issued, started>>
    BY <1>10 DEF InsertOperatorEvent, process, disk, history
  <2> QED
    BY <2>1, <2>2, <2>3, <2>4 DEF TypeOK
<1>11. CASE StartApi
  <2>1. cfg' \in Config /\ started' \in Secrets
    BY <1>11, LoadedType DEF StartApi, TypeOK
  <2>2. nonces' = <<>> /\ testAt' = Never /\ up' = TRUE
    BY <1>11 DEF StartApi
  <2>3. UNCHANGED <<now, stops, file, secretFile, rq, tokens, node, events, requests, issued>>
    BY <1>11 DEF StartApi, disk, outside
  <2> QED
    BY <2>1, <2>2, <2>3 DEF TypeOK
<1>12. CASE StopApi
  <2>1. rq' \in [Handlers -> Request \cup {Idle}]
    BY <1>12 DEF StopApi
  <2>2. stops' \in 0..MaxStops /\ up' = FALSE
    BY <1>12, AccessAssumption DEF StopApi, TypeOK
  <2>3. UNCHANGED <<now, file, secretFile, cfg, nonces, testAt, tokens, node, events, requests,
                    issued, started>>
    BY <1>12 DEF StopApi, disk, outside, history
  <2> QED
    BY <2>1, <2>2, <2>3 DEF TypeOK
<1> QED
  BY <1>1, <1>2, <1>3, <1>4, <1>5, <1>6, <1>7, <1>8, <1>9, <1>10, <1>11, <1>12, NextCases

-----------------------------------------------------------------------------
(* Nonces and logins.                                                      *)

Challenges == NoncesExpire /\ VerifyOwnsNonce /\ LoginsSpent /\ LoginsProven

\* A new login, in the terms of the invariant.
LEMMA LoginFacts ==
  ASSUME TypeOK, HistoryOK, NEW h \in Handlers, IssueSession(h), Verified(rq[h].proof)
  PROVE  \E l \in Login :
           /\ logins' = Append(logins, l)
           /\ l.proof = rq[h].proof /\ l.used = rq[h].used /\ l.at = now /\ l.secret = started
           /\ l.token.addr = rq[h].proof.addr /\ l.token.exp = now + SessionTTL
           /\ l.token.secret = cfg.secret
           /\ tokens' = tokens \cup {l.token}
<1>1. rq[h].proof \in Proof /\ rq[h].used \in Nat /\ rq[h].proof.addr \in Users
  BY RequestType DEF IssueSession, Serving, Proof
<1>2. PICK t : t = NewToken(rq[h].proof.addr)
  OBVIOUS
<1>3. t \in Token /\ t.addr = rq[h].proof.addr /\ t.exp = now + SessionTTL /\ t.secret = cfg.secret
  BY <1>1, <1>2, NewTokenType
<1>4. PICK l : l = [proof |-> rq[h].proof, used |-> rq[h].used, at |-> now, secret |-> started,
                    token |-> t]
  OBVIOUS
<1>5. l \in Login
  BY <1>1, <1>3, <1>4 DEF Login, TypeOK
<1>6. /\ l.proof = rq[h].proof /\ l.used = rq[h].used /\ l.at = now /\ l.secret = started
      /\ l.token = t
  BY <1>4
<1>7. logins' = Append(logins, l) /\ tokens' = tokens \cup {t}
  BY <1>2, <1>4 DEF IssueSession
<1> QED
  BY <1>3, <1>5, <1>6, <1>7

\* Every step keeps the history in order: nothing in it lies in the future, and what it
\* names exists.
LEMMA HistoryNext ==
  ASSUME TypeOK, HistoryOK, [Next]_vars
  PROVE  HistoryOK'
<1>1. CASE Quiet
  BY <1>1, QuietFacts DEF HistoryOK
<1>2. ASSUME NEW n \in Nonces, IssueNonce(n)
      PROVE  HistoryOK'
  <2>1. issued' = With(issued, n, now) /\ now \in Nat /\ UNCHANGED <<logins, tests>>
    BY <1>2 DEF IssueNonce, TypeOK
  <2>2. \A m \in DOMAIN issued' : issued'[m] = now \/ (m \in DOMAIN issued /\ issued'[m] = issued[m])
    BY <2>1 DEF With
  <2> QED
    BY <2>1, <2>2 DEF HistoryOK
<1>3. ASSUME NEW h \in Handlers, NEW proof \in Proof, VerifyLogin(h, proof)
      PROVE  HistoryOK'
  BY <1>3 DEF VerifyLogin, history, HistoryOK
<1>4. ASSUME NEW h \in Handlers, IssueSession(h)
      PROVE  HistoryOK'
  <2>1. UNCHANGED <<issued, tests>>
    BY <1>4 DEF IssueSession
  <2>2. logins' \in Seq(Login)
    <3>1. CASE Verified(rq[h].proof)
      <4>1. PICK l \in Login : logins' = Append(logins, l)
        BY <1>4, <3>1, LoginFacts
      <4> QED
        BY <4>1 DEF HistoryOK
    <3>2. CASE ~Verified(rq[h].proof)
      BY <1>4, <3>2 DEF IssueSession, HistoryOK
    <3> QED
      BY <3>1, <3>2
  <2> QED
    BY <2>1, <2>2 DEF HistoryOK
<1>5. ASSUME NEW h \in Handlers, NEW t \in tokens, NEW f \in Settings, SaveSettings(h, t, f)
      PROVE  HistoryOK'
  BY <1>5 DEF SaveSettings, history, HistoryOK
<1>6. ASSUME NEW h \in Handlers, NEW t \in tokens, TestAlert(h, t)
      PROVE  HistoryOK'
  <2>1. tests' = Append(tests, now) /\ now \in Nat /\ UNCHANGED <<issued, logins>>
    BY <1>6 DEF TestAlert, TypeOK
  <2> QED
    BY <2>1 DEF HistoryOK
<1>7. ASSUME NEW h \in Handlers, DeliverTest(h)
      PROVE  HistoryOK'
  BY <1>7 DEF DeliverTest, history, HistoryOK
<1>8. ASSUME NEW h \in Handlers, NEW t \in tokens, NEW tx \in Stake, SubmitStake(h, t, tx)
      PROVE  HistoryOK'
  BY <1>8 DEF SubmitStake, HistoryOK
<1>9. ASSUME NEW h \in Handlers, BroadcastStake(h)
      PROVE  HistoryOK'
  BY <1>9 DEF BroadcastStake, history, HistoryOK
<1>10. ASSUME NEW h \in Handlers, InsertOperatorEvent(h)
       PROVE  HistoryOK'
  BY <1>10 DEF InsertOperatorEvent, history, HistoryOK
<1>11. CASE StartApi
  <2>1. tests' = <<>> /\ UNCHANGED <<issued, logins>>
    BY <1>11 DEF StartApi
  <2> QED
    BY <2>1 DEF HistoryOK
<1>12. CASE StopApi
  BY <1>12 DEF StopApi, history, HistoryOK
<1> QED
  BY <1>1, <1>2, <1>3, <1>4, <1>5, <1>6, <1>7, <1>8, <1>9, <1>10, <1>11, <1>12, NextCases

\* A step that issues no nonce, consumes none and logs nobody in.
LEMMA ChallengesIdle ==
  ASSUME Challenges, UNCHANGED <<issued, logins>>,
         nonces' = nonces \/ nonces' = <<>>,
         \A h \in Handlers : rq'[h].pc = "verify" => rq'[h] = rq[h]
  PROVE  Challenges'
<1>1. \A n : Spent(n) => Spent(n)'
  BY DEF Spent
<1>2. NoncesExpire'
  BY DEF Challenges, NoncesExpire
<1>3. VerifyOwnsNonce'
  BY <1>1 DEF Challenges, VerifyOwnsNonce
<1>4. LoginsSpent' /\ LoginsProven'
  BY <1>1 DEF Challenges, LoginsSpent, LoginsProven
<1> QED
  BY <1>2, <1>3, <1>4 DEF Challenges

\* Every step keeps the bond between a challenge and the request or login that consumed it:
\* IssueNonce never hands out one that is in use, and VerifyLogin deletes what it consumes.
LEMMA ChallengesNext ==
  ASSUME TypeOK, HistoryOK, Challenges, [Next]_vars
  PROVE  Challenges'
<1>0. ASSUME NEW h \in Handlers, NEW r, Work(h, r), r.pc # "verify"
      PROVE  \A g \in Handlers : rq'[g].pc = "verify" => rq'[g] = rq[g]
  BY <1>0, WorkFacts
<1>1. CASE Quiet
  BY <1>1, QuietFacts, ChallengesIdle
<1>2. ASSUME NEW n \in Nonces, IssueNonce(n)
      PROVE  Challenges'
  <2>1. /\ n \notin DOMAIN issued /\ n \notin DOMAIN nonces
        /\ nonces' = With(nonces, n, now + NonceTTL) /\ issued' = With(issued, n, now)
        /\ UNCHANGED <<rq, logins>>
    BY <1>2 DEF IssueNonce, TypeOK
  <2>2. /\ DOMAIN nonces' = DOMAIN nonces \cup {n} /\ DOMAIN issued' = DOMAIN issued \cup {n}
        /\ nonces'[n] = issued'[n] + NonceTTL
        /\ \A m \in DOMAIN nonces : nonces'[m] = nonces[m]
        /\ \A m \in DOMAIN issued : issued'[m] = issued[m]
    BY <2>1 DEF With
  <2>3. \A m : Spent(m) => Spent(m)' /\ issued'[m] = issued[m]
    BY <2>1, <2>2 DEF Spent
  <2>4. DOMAIN nonces \subseteq DOMAIN issued
    BY DEF TypeOK
  <2>5. NoncesExpire'
    BY <2>2, <2>4 DEF Challenges, NoncesExpire
  <2>6. VerifyOwnsNonce'
    BY <2>1, <2>3 DEF Challenges, VerifyOwnsNonce
  <2>7. LoginsSpent' /\ LoginsProven'
    BY <2>1, <2>3 DEF Challenges, LoginsSpent, LoginsProven
  <2> QED
    BY <2>5, <2>6, <2>7 DEF Challenges
<1>3. ASSUME NEW h \in Handlers, NEW proof \in Proof, VerifyLogin(h, proof)
      PROVE  Challenges'
  <2>1. nonces' = Without(nonces, proof.nonce) /\ UNCHANGED <<issued, logins>> /\ rq[h].pc = "idle"
    BY <1>3 DEF VerifyLogin, Consume, history, Serving
  <2>2. DOMAIN nonces' = DOMAIN nonces \ {proof.nonce} /\ \A m \in DOMAIN nonces' : nonces'[m] = nonces[m]
    BY <2>1 DEF Without
  <2>3. \A m : Spent(m) => Spent(m)'
    BY <2>1, <2>2 DEF Spent
  <2>4. NoncesExpire' /\ LoginsSpent' /\ LoginsProven'
    BY <2>1, <2>2, <2>3 DEF Challenges, NoncesExpire, LoginsSpent, LoginsProven
  <2>5. CASE proof.nonce \in DOMAIN nonces /\ now <= nonces[proof.nonce]
    <3> DEFINE r == [pc |-> "verify", proof |-> proof, used |-> now]
    <3>1. Work(h, r) /\ r.proof.nonce = proof.nonce /\ r.used = now
      BY <1>3, <2>5 DEF VerifyLogin
    <3> HIDE DEF r
    <3>2. rq'[h] = r /\ \A g \in Handlers : g # h => rq'[g] = rq[g]
      BY <3>1, WorkFacts
    <3>3. ~Spent(proof.nonce)
      BY <2>5 DEF Spent
    <3>4. Spent(proof.nonce)' /\ now <= issued'[proof.nonce] + NonceTTL
      BY <2>1, <2>2, <2>5 DEF Spent, Challenges, NoncesExpire, TypeOK
    <3>5. ASSUME NEW g \in Handlers, g # h, rq[g].pc = "verify"
          PROVE  /\ rq[g].proof.nonce \in DOMAIN issued' \ DOMAIN nonces'
                 /\ rq[g].proof.nonce # proof.nonce
                 /\ rq[g].used <= issued'[rq[g].proof.nonce] + NonceTTL
                 /\ \A i \in DOMAIN logins : logins[i].proof.nonce # rq[g].proof.nonce
      <4>1. Spent(rq[g].proof.nonce)
        BY <3>5 DEF Challenges, VerifyOwnsNonce
      <4>2. rq[g].proof.nonce # proof.nonce
        BY <3>3, <4>1
      <4>3. rq[g].proof.nonce \in DOMAIN issued' \ DOMAIN nonces'
        BY <2>1, <2>2, <4>1 DEF Spent
      <4> QED
        BY <2>1, <3>5, <4>2, <4>3 DEF Challenges, VerifyOwnsNonce
    <3>6. \A i \in DOMAIN logins : logins[i].proof.nonce # proof.nonce
      BY <3>3 DEF Challenges, LoginsSpent
    <3>7. VerifyOwnsNonce'
      <4> SUFFICES ASSUME NEW k \in Handlers, rq'[k].pc = "verify"
                   PROVE  /\ rq'[k].proof.nonce \in DOMAIN issued' \ DOMAIN nonces'
                          /\ rq'[k].used <= issued'[rq'[k].proof.nonce] + NonceTTL
                          /\ \A g \in Handlers : g # k /\ rq'[g].pc = "verify" =>
                               rq'[g].proof.nonce # rq'[k].proof.nonce
                          /\ \A i \in DOMAIN logins : logins[i].proof.nonce # rq'[k].proof.nonce
        BY <2>1 DEF VerifyOwnsNonce, Spent
      <4>1. CASE k = h
        BY <3>1, <3>2, <3>4, <3>5, <3>6, <4>1 DEF Spent
      <4>2. CASE k # h
        BY <3>1, <3>2, <3>5, <4>2 DEF Challenges, VerifyOwnsNonce
      <4> QED
        BY <4>1, <4>2
    <3> QED
      BY <2>4, <3>7 DEF Challenges
  <2>6. CASE ~(proof.nonce \in DOMAIN nonces /\ now <= nonces[proof.nonce])
    <3>1. UNCHANGED rq
      BY <1>3, <2>6 DEF VerifyLogin
    <3>2. VerifyOwnsNonce'
      BY <2>1, <2>3, <3>1 DEF Challenges, VerifyOwnsNonce
    <3> QED
      BY <2>4, <3>2 DEF Challenges
  <2> QED
    BY <2>5, <2>6
<1>4. ASSUME NEW h \in Handlers, IssueSession(h)
      PROVE  Challenges'
  <2>1. UNCHANGED <<nonces, issued>> /\ Work(h, Idle) /\ rq[h].pc = "verify"
    BY <1>4 DEF IssueSession, End, Serving
  <2>2. \A g \in Handlers : rq'[g].pc = "verify" => g # h /\ rq'[g] = rq[g]
    BY <2>1, WorkFacts DEF Idle
  <2>3. CASE Verified(rq[h].proof)
    <3>1. PICK l \in Login : logins' = Append(logins, l) /\ l.proof = rq[h].proof /\ l.used = rq[h].used
      BY <1>4, <2>3, LoginFacts
    <3>2. /\ DOMAIN logins' = DOMAIN logins \cup {Len(logins) + 1}
          /\ \A i \in DOMAIN logins : logins'[i] = logins[i]
          /\ logins'[Len(logins) + 1] = l
          /\ Len(logins) + 1 \notin DOMAIN logins
      BY <3>1 DEF HistoryOK
    <3>3. /\ Spent(l.proof.nonce) /\ l.used <= issued[l.proof.nonce] + NonceTTL
          /\ \A i \in DOMAIN logins : logins[i].proof.nonce # l.proof.nonce
          /\ \A g \in Handlers : g # h /\ rq[g].pc = "verify" => rq[g].proof.nonce # l.proof.nonce
      BY <2>1, <3>1 DEF Challenges, VerifyOwnsNonce
    <3>4. \A m : Spent(m)' <=> Spent(m)
      BY <2>1 DEF Spent
    <3>5. NoncesExpire'
      BY <2>1 DEF Challenges, NoncesExpire
    <3>6. LoginsSpent'
      BY <3>2, <3>3, <3>4 DEF Challenges, LoginsSpent
    <3>7. VerifyOwnsNonce'
      BY <2>1, <2>2, <3>2, <3>3, <3>4 DEF Challenges, VerifyOwnsNonce
    <3>8. l.proof.by = l.proof.addr /\ l.proof.over = l.proof.nonce
      BY <2>3, <3>1 DEF Verified
    <3>9. LoginsProven'
      BY <2>1, <3>2, <3>3, <3>8 DEF Challenges, LoginsProven
    <3> QED
      BY <3>5, <3>6, <3>7, <3>9 DEF Challenges
  <2>4. CASE ~Verified(rq[h].proof)
    <3>1. UNCHANGED logins
      BY <1>4, <2>4 DEF IssueSession
    <3> QED
      BY <2>1, <2>2, <3>1, ChallengesIdle
  <2> QED
    BY <2>3, <2>4
<1>5. ASSUME NEW h \in Handlers, NEW t \in tokens, NEW f \in Settings, SaveSettings(h, t, f)
      PROVE  Challenges'
  BY <1>5, ChallengesIdle DEF SaveSettings, history
<1>6. ASSUME NEW h \in Handlers, NEW t \in tokens, TestAlert(h, t)
      PROVE  Challenges'
  <2>1. Work(h, [pc |-> "deliver"]) /\ UNCHANGED <<nonces, issued, logins>>
    BY <1>6 DEF TestAlert
  <2> QED
    BY <1>0, <2>1, ChallengesIdle
<1>7. ASSUME NEW h \in Handlers, DeliverTest(h)
      PROVE  Challenges'
  <2>1. Work(h, Idle) /\ UNCHANGED <<nonces, issued, logins>>
    BY <1>7 DEF DeliverTest, End, history
  <2> QED
    BY <1>0, <2>1, ChallengesIdle DEF Idle
<1>8. ASSUME NEW h \in Handlers, NEW t \in tokens, NEW tx \in Stake, SubmitStake(h, t, tx)
      PROVE  Challenges'
  <2>1. Work(h, [pc |-> "broadcast", tx |-> tx]) /\ UNCHANGED <<nonces, issued, logins>>
    BY <1>8 DEF SubmitStake
  <2> QED
    BY <1>0, <2>1, ChallengesIdle
<1>9. ASSUME NEW h \in Handlers, BroadcastStake(h)
      PROVE  Challenges'
  <2>1. Work(h, [pc |-> "announce", tx |-> rq[h].tx]) \/ Work(h, Idle)
    BY <1>9 DEF BroadcastStake, AfterAnswer, End
  <2>2. UNCHANGED <<nonces, issued, logins>>
    BY <1>9 DEF BroadcastStake, history
  <2> QED
    BY <1>0, <2>1, <2>2, ChallengesIdle DEF Idle
<1>10. ASSUME NEW h \in Handlers, InsertOperatorEvent(h)
       PROVE  Challenges'
  <2>1. Work(h, Idle) /\ UNCHANGED <<nonces, issued, logins>>
    BY <1>10 DEF InsertOperatorEvent, End, history
  <2> QED
    BY <1>0, <2>1, ChallengesIdle DEF Idle
<1>11. CASE StartApi
  BY <1>11, ChallengesIdle DEF StartApi
<1>12. CASE StopApi
  <2>1. \A h \in Handlers : rq'[h].pc # "verify"
    BY <1>12 DEF StopApi, Idle
  <2> QED
    BY <1>12, <2>1, ChallengesIdle DEF StopApi, history
<1> QED
  BY <1>1, <1>2, <1>3, <1>4, <1>5, <1>6, <1>7, <1>8, <1>9, <1>10, <1>11, <1>12, NextCases

-----------------------------------------------------------------------------
(* Sessions and alert tests.                                               *)

\* A token keeps its meaning: a save carries the secret over, and a start takes
\* the file's for both.
LEMMA TokensNext ==
  ASSUME TypeOK, HistoryOK, TokensFromLogins, [Next]_vars
  PROVE  TokensFromLogins'
<1> USE DEF TokensFromLogins
<1>1. CASE Quiet
  BY <1>1, QuietFacts
<1>2. ASSUME NEW n \in Nonces, IssueNonce(n)
      PROVE  TokensFromLogins'
  BY <1>2 DEF IssueNonce, outside
<1>3. ASSUME NEW h \in Handlers, NEW proof \in Proof, VerifyLogin(h, proof)
      PROVE  TokensFromLogins'
  BY <1>3 DEF VerifyLogin, outside, history
<1>4. ASSUME NEW h \in Handlers, IssueSession(h)
      PROVE  TokensFromLogins'
  <2>1. UNCHANGED <<cfg, started>>
    BY <1>4 DEF IssueSession
  <2>2. CASE Verified(rq[h].proof)
    <3>1. PICK l \in Login :
            /\ logins' = Append(logins, l)
            /\ l.proof = rq[h].proof /\ l.at = now /\ l.secret = started
            /\ l.token.addr = rq[h].proof.addr /\ l.token.exp = now + SessionTTL
            /\ l.token.secret = cfg.secret
            /\ tokens' = tokens \cup {l.token}
      BY <1>4, <2>2, LoginFacts
    <3>2. /\ DOMAIN logins' = DOMAIN logins \cup {Len(logins) + 1}
          /\ \A i \in DOMAIN logins : logins'[i] = logins[i]
          /\ logins'[Len(logins) + 1] = l
      BY <3>1 DEF HistoryOK
    <3>3. \A i \in DOMAIN logins' : /\ logins'[i].token.exp = logins'[i].at + SessionTTL
                                    /\ logins'[i].token.secret = logins'[i].secret
      BY <3>1, <3>2
    <3>4. \A t \in tokens' : \E i \in DOMAIN logins' : logins'[i].proof.addr = t.addr
      BY <3>1, <3>2
    <3> QED
      BY <2>1, <3>3, <3>4
  <2>3. CASE ~Verified(rq[h].proof)
    BY <1>4, <2>1, <2>3 DEF IssueSession
  <2> QED
    BY <2>2, <2>3
<1>5. ASSUME NEW h \in Handlers, NEW t \in tokens, NEW f \in Settings, SaveSettings(h, t, f)
      PROVE  TokensFromLogins'
  <2>1. cfg'.secret = cfg.secret /\ UNCHANGED <<tokens, logins, started>>
    BY <1>5 DEF SaveSettings, ApplyLiveConfig, Loaded, history
  <2> QED
    BY <2>1
<1>6. ASSUME NEW h \in Handlers, NEW t \in tokens, TestAlert(h, t)
      PROVE  TokensFromLogins'
  BY <1>6 DEF TestAlert
<1>7. ASSUME NEW h \in Handlers, DeliverTest(h)
      PROVE  TokensFromLogins'
  BY <1>7 DEF DeliverTest, outside, history
<1>8. ASSUME NEW h \in Handlers, NEW t \in tokens, NEW tx \in Stake, SubmitStake(h, t, tx)
      PROVE  TokensFromLogins'
  BY <1>8 DEF SubmitStake
<1>9. ASSUME NEW h \in Handlers, BroadcastStake(h)
      PROVE  TokensFromLogins'
  BY <1>9 DEF BroadcastStake, history
<1>10. ASSUME NEW h \in Handlers, InsertOperatorEvent(h)
       PROVE  TokensFromLogins'
  BY <1>10 DEF InsertOperatorEvent, history
<1>11. CASE StartApi
  <2>1. cfg'.secret = started' /\ UNCHANGED <<tokens, logins>>
    BY <1>11 DEF StartApi, Loaded, outside
  <2> QED
    BY <2>1
<1>12. CASE StopApi
  BY <1>12 DEF StopApi, outside, history
<1> QED
  BY <1>1, <1>2, <1>3, <1>4, <1>5, <1>6, <1>7, <1>8, <1>9, <1>10, <1>11, <1>12, NextCases

\* Checking and noting the moment are one step, so the tests stay apart.
LEMMA TestsNext ==
  ASSUME TypeOK, HistoryOK, TestNoted, TestsSpaced, [Next]_vars
  PROVE  TestNoted' /\ TestsSpaced'
<1>0. ASSUME UNCHANGED <<testAt, tests>>
      PROVE  TestNoted' /\ TestsSpaced'
  BY <1>0 DEF TestNoted, TestsSpaced
<1>1. CASE Quiet
  BY <1>0, <1>1, QuietFacts
<1>2. ASSUME NEW n \in Nonces, IssueNonce(n)
      PROVE  UNCHANGED <<testAt, tests>>
  BY <1>2 DEF IssueNonce
<1>3. ASSUME NEW h \in Handlers, NEW proof \in Proof, VerifyLogin(h, proof)
      PROVE  UNCHANGED <<testAt, tests>>
  BY <1>3 DEF VerifyLogin, history
<1>4. ASSUME NEW h \in Handlers, IssueSession(h)
      PROVE  UNCHANGED <<testAt, tests>>
  BY <1>4 DEF IssueSession
<1>5. ASSUME NEW h \in Handlers, NEW t \in tokens, NEW f \in Settings, SaveSettings(h, t, f)
      PROVE  UNCHANGED <<testAt, tests>>
  BY <1>5 DEF SaveSettings, history
<1>6. ASSUME NEW h \in Handlers, NEW t \in tokens, TestAlert(h, t)
      PROVE  TestNoted' /\ TestsSpaced'
  <2>1. /\ tests' = Append(tests, now) /\ testAt' = now
        /\ testAt # Never => now - testAt >= TestInterval
    BY <1>6 DEF TestAlert, NoteTest
  <2>2. tests \in Seq(Nat) /\ now \in Nat
    BY DEF HistoryOK, TypeOK
  <2>3. /\ DOMAIN tests' = DOMAIN tests \cup {Len(tests) + 1} /\ Len(tests') = Len(tests) + 1
        /\ \A i \in DOMAIN tests : tests'[i] = tests[i]
        /\ tests'[Len(tests) + 1] = now
        /\ tests' # <<>>
    BY <2>1, <2>2
  <2>4. TestNoted'
    BY <2>1, <2>3 DEF TestNoted
  <2>5. ASSUME NEW i \in DOMAIN tests', i > 1
        PROVE  tests'[i] - tests'[i - 1] >= TestInterval
    <3>1. CASE i \in DOMAIN tests
      <4>1. i - 1 \in DOMAIN tests
        BY <2>2, <2>5, <3>1
      <4> QED
        BY <2>3, <2>5, <3>1, <4>1 DEF TestsSpaced
    <3>2. CASE i = Len(tests) + 1
      <4>1. i - 1 = Len(tests) /\ Len(tests) \in DOMAIN tests /\ tests # <<>>
        BY <2>2, <2>5, <3>2
      <4>2. testAt = tests[Len(tests)] /\ testAt # Never
        BY <2>2, <4>1, AccessAssumption DEF TestNoted
      <4> QED
        BY <2>1, <2>3, <3>2, <4>1, <4>2
    <3> QED
      BY <2>3, <3>1, <3>2
  <2> QED
    BY <2>4, <2>5 DEF TestsSpaced
<1>7. ASSUME NEW h \in Handlers, DeliverTest(h)
      PROVE  UNCHANGED <<testAt, tests>>
  BY <1>7 DEF DeliverTest, history
<1>8. ASSUME NEW h \in Handlers, NEW t \in tokens, NEW tx \in Stake, SubmitStake(h, t, tx)
      PROVE  UNCHANGED <<testAt, tests>>
  BY <1>8 DEF SubmitStake
<1>9. ASSUME NEW h \in Handlers, BroadcastStake(h)
      PROVE  UNCHANGED <<testAt, tests>>
  BY <1>9 DEF BroadcastStake, history
<1>10. ASSUME NEW h \in Handlers, InsertOperatorEvent(h)
       PROVE  UNCHANGED <<testAt, tests>>
  BY <1>10 DEF InsertOperatorEvent, history
<1>11. CASE StartApi
  BY <1>11 DEF StartApi, TestNoted, TestsSpaced
<1>12. CASE StopApi
  BY <1>0, <1>12 DEF StopApi, history
<1> QED
  BY <1>0, <1>1, <1>2, <1>3, <1>4, <1>5, <1>6, <1>7, <1>8, <1>9, <1>10, <1>11, <1>12, NextCases

-----------------------------------------------------------------------------
(* Onboarding.                                                             *)

\* What was asked for and who has logged in is never forgotten.
LEMMA HistoryGrows ==
  ASSUME TypeOK, HistoryOK, [Next]_vars
  PROVE  /\ pools \subseteq pools'
         /\ DOMAIN logins \subseteq DOMAIN logins' /\ \A i \in DOMAIN logins : logins'[i] = logins[i]
<1>1. CASE Quiet
  BY <1>1, QuietFacts
<1>2. ASSUME NEW n \in Nonces, IssueNonce(n)
      PROVE  UNCHANGED <<pools, logins>>
  BY <1>2 DEF IssueNonce
<1>3. ASSUME NEW h \in Handlers, NEW proof \in Proof, VerifyLogin(h, proof)
      PROVE  UNCHANGED <<pools, logins>>
  BY <1>3 DEF VerifyLogin, history
<1>4. ASSUME NEW h \in Handlers, IssueSession(h)
      PROVE  /\ pools \subseteq pools'
             /\ DOMAIN logins \subseteq DOMAIN logins' /\ \A i \in DOMAIN logins : logins'[i] = logins[i]
  <2>1. UNCHANGED pools
    BY <1>4 DEF IssueSession
  <2>2. CASE Verified(rq[h].proof)
    <3>1. PICK l \in Login : logins' = Append(logins, l)
      BY <1>4, <2>2, LoginFacts
    <3> QED
      BY <2>1, <3>1 DEF HistoryOK
  <2>3. CASE ~Verified(rq[h].proof)
    BY <1>4, <2>1, <2>3 DEF IssueSession
  <2> QED
    BY <2>2, <2>3
<1>5. ASSUME NEW h \in Handlers, NEW t \in tokens, NEW f \in Settings, SaveSettings(h, t, f)
      PROVE  UNCHANGED <<pools, logins>>
  BY <1>5 DEF SaveSettings, history
<1>6. ASSUME NEW h \in Handlers, NEW t \in tokens, TestAlert(h, t)
      PROVE  UNCHANGED <<pools, logins>>
  BY <1>6 DEF TestAlert
<1>7. ASSUME NEW h \in Handlers, DeliverTest(h)
      PROVE  UNCHANGED <<pools, logins>>
  BY <1>7 DEF DeliverTest, history
<1>8. ASSUME NEW h \in Handlers, NEW t \in tokens, NEW tx \in Stake, SubmitStake(h, t, tx)
      PROVE  pools \subseteq pools' /\ UNCHANGED logins
  BY <1>8 DEF SubmitStake
<1>9. ASSUME NEW h \in Handlers, BroadcastStake(h)
      PROVE  UNCHANGED <<pools, logins>>
  BY <1>9 DEF BroadcastStake, history
<1>10. ASSUME NEW h \in Handlers, InsertOperatorEvent(h)
       PROVE  UNCHANGED <<pools, logins>>
  BY <1>10 DEF InsertOperatorEvent, history
<1>11. CASE StartApi
  BY <1>11 DEF StartApi
<1>12. CASE StopApi
  BY <1>12 DEF StopApi, history
<1> QED
  BY <1>1, <1>2, <1>3, <1>4, <1>5, <1>6, <1>7, <1>8, <1>9, <1>10, <1>11, <1>12, NextCases

\* A stake that is sent was checked against the session when it was submitted.
LEMMA StakesNext ==
  ASSUME TypeOK, HistoryOK, TokensFromLogins, RequestsOwn, StakesAreOwn, [Next]_vars
  PROVE  RequestsOwn' /\ StakesAreOwn'
<1>o. \A tx : Own(tx) => Own(tx)'
  BY HistoryGrows DEF Own
<1>i. ASSUME \A h \in Handlers : rq'[h].pc \in {"broadcast", "announce"} => rq'[h] = rq[h],
             UNCHANGED <<node, events>>
      PROVE  RequestsOwn' /\ StakesAreOwn'
  <2>1. \A tx \in node : Own(tx)'
    BY <1>o DEF StakesAreOwn, Own
  <2>2. \A h \in Handlers : rq'[h].pc \in {"broadcast", "announce"} =>
          \A tx : tx = rq'[h].tx => Own(tx)'
    BY <1>o, <1>i DEF RequestsOwn
  <2>3. RequestsOwn'
    BY <1>i, <2>2 DEF RequestsOwn, Own
  <2> QED
    BY <1>i, <2>1, <2>3 DEF StakesAreOwn, Own
<1>w. ASSUME NEW h \in Handlers, NEW r, Work(h, r), r.pc \notin {"broadcast", "announce"},
             UNCHANGED <<node, events>>
      PROVE  RequestsOwn' /\ StakesAreOwn'
  BY <1>i, <1>w, WorkFacts
<1>1. CASE Quiet
  BY <1>1, <1>i, QuietFacts
<1>2. ASSUME NEW n \in Nonces, IssueNonce(n)
      PROVE  RequestsOwn' /\ StakesAreOwn'
  BY <1>2, <1>i DEF IssueNonce, outside
<1>3. ASSUME NEW h \in Handlers, NEW proof \in Proof, VerifyLogin(h, proof)
      PROVE  RequestsOwn' /\ StakesAreOwn'
  <2>1. rq' = rq \/ Work(h, [pc |-> "verify", proof |-> proof, used |-> now])
    BY <1>3 DEF VerifyLogin
  <2>2. UNCHANGED <<node, events>>
    BY <1>3 DEF VerifyLogin, outside
  <2> QED
    BY <1>i, <1>w, <2>1, <2>2
<1>4. ASSUME NEW h \in Handlers, IssueSession(h)
      PROVE  RequestsOwn' /\ StakesAreOwn'
  BY <1>4, <1>w DEF IssueSession, End, Idle
<1>5. ASSUME NEW h \in Handlers, NEW t \in tokens, NEW f \in Settings, SaveSettings(h, t, f)
      PROVE  RequestsOwn' /\ StakesAreOwn'
  BY <1>5, <1>i DEF SaveSettings
<1>6. ASSUME NEW h \in Handlers, NEW t \in tokens, TestAlert(h, t)
      PROVE  RequestsOwn' /\ StakesAreOwn'
  BY <1>6, <1>w DEF TestAlert
<1>7. ASSUME NEW h \in Handlers, DeliverTest(h)
      PROVE  RequestsOwn' /\ StakesAreOwn'
  BY <1>7, <1>w DEF DeliverTest, End, Idle, outside
<1>8. ASSUME NEW h \in Handlers, NEW t \in tokens, NEW tx \in Stake, SubmitStake(h, t, tx)
      PROVE  RequestsOwn' /\ StakesAreOwn'
  <2>1. /\ Work(h, [pc |-> "broadcast", tx |-> tx])
        /\ pools' = pools \cup {<<t.addr, cfg.validator>>}
        /\ tx.sender = t.addr /\ tx.delegate = cfg.validator /\ tx.signer = tx.sender
        /\ UNCHANGED <<node, events, logins>>
    BY <1>8 DEF SubmitStake, StakeTxMatches
  <2>2. Own(tx)'
    BY <2>1 DEF Own, TokensFromLogins
  <2>3. /\ rq'[h].pc = "broadcast" /\ rq'[h].tx = tx
        /\ \A g \in Handlers : g # h => rq'[g] = rq[g]
    BY <2>1, WorkFacts
  <2>4. \A g \in Handlers : rq'[g].pc \in {"broadcast", "announce"} =>
          \A x : x = rq'[g].tx => Own(x)'
    BY <1>o, <2>2, <2>3 DEF RequestsOwn
  <2>5. RequestsOwn'
    BY <2>1, <2>3, <2>4 DEF RequestsOwn, Own
  <2>6. \A x \in node : Own(x)'
    BY <1>o DEF StakesAreOwn, Own
  <2> QED
    BY <2>1, <2>5, <2>6 DEF StakesAreOwn, Own
<1>9. ASSUME NEW h \in Handlers, BroadcastStake(h)
      PROVE  RequestsOwn' /\ StakesAreOwn'
  <2>1. PICK tx : tx = rq[h].tx
    OBVIOUS
  <2>2. Own(tx)' /\ UNCHANGED events
    BY <1>o, <1>9, <2>1 DEF BroadcastStake, Serving, RequestsOwn
  <2>3. PICK ok \in BOOLEAN, arrived \in BOOLEAN :
          /\ ok => arrived
          /\ node' = IF arrived THEN node \cup {tx} ELSE node
          /\ AfterAnswer(h, ok)
    BY <1>9, <2>1 DEF BroadcastStake
  <2>4. node \subseteq node' /\ node' \subseteq node \cup {tx} /\ (ok => tx \in node')
    BY <2>3
  <2>5. \/ ok /\ rq'[h].pc = "announce" /\ rq'[h].tx = tx
        \/ rq'[h].pc = "idle"
    BY <2>1, <2>3, WorkFacts DEF AfterAnswer, End, Idle
  <2>6. \A g \in Handlers : g # h => rq'[g] = rq[g]
    BY <2>3, WorkFacts DEF AfterAnswer, End
  <2>7. \A g \in Handlers : rq'[g].pc \in {"broadcast", "announce"} =>
          \A x : x = rq'[g].tx => Own(x)'
    BY <1>o, <2>2, <2>5, <2>6 DEF RequestsOwn
  <2>8. RequestsOwn'
    BY <2>4, <2>5, <2>6, <2>7 DEF RequestsOwn, Own
  <2>9. \A x \in node' : Own(x)'
    BY <1>o, <2>2, <2>4 DEF StakesAreOwn, Own
  <2> QED
    BY <2>2, <2>4, <2>8, <2>9 DEF StakesAreOwn, Own
<1>10. ASSUME NEW h \in Handlers, InsertOperatorEvent(h)
       PROVE  RequestsOwn' /\ StakesAreOwn'
  <2>1. rq[h].tx \in node
    BY <1>10 DEF InsertOperatorEvent, Serving, RequestsOwn
  <2>2. /\ Work(h, Idle) /\ UNCHANGED node
        /\ events' \subseteq events \cup {rq[h].tx}
    BY <1>10 DEF InsertOperatorEvent, End
  <2>3. \A g \in Handlers : rq'[g].pc \in {"broadcast", "announce"} => rq'[g] = rq[g]
    BY <2>2, WorkFacts DEF Idle
  <2>4. \A g \in Handlers : rq'[g].pc \in {"broadcast", "announce"} =>
          \A x : x = rq'[g].tx => Own(x)'
    BY <1>o, <2>3 DEF RequestsOwn
  <2>5. RequestsOwn'
    BY <2>2, <2>3, <2>4 DEF RequestsOwn, Own
  <2>6. \A x \in node : Own(x)'
    BY <1>o DEF StakesAreOwn, Own
  <2> QED
    BY <2>1, <2>2, <2>5, <2>6 DEF StakesAreOwn, Own
<1>11. CASE StartApi
  BY <1>11, <1>i DEF StartApi, outside
<1>12. CASE StopApi
  BY <1>12, <1>i DEF StopApi, outside, Idle
<1> QED
  BY <1>1, <1>2, <1>3, <1>4, <1>5, <1>6, <1>7, <1>8, <1>9, <1>10, <1>11, <1>12, NextCases

-----------------------------------------------------------------------------
(* The theorems.                                                           *)

\* The invariant holds in every reachable state.
THEOREM Invariance == Spec => []IInv
<1>1. Init => IInv
  <2> SUFFICES ASSUME Init PROVE IInv
    OBVIOUS
  <2>1. TypeOK
    BY LoadedType, AccessAssumption DEF Init, TypeOK
  <2>2. HistoryOK
    BY DEF Init, HistoryOK
  <2>3. DOMAIN nonces = {} /\ DOMAIN logins = {} /\ \A h \in Handlers : rq[h].pc = "idle"
    BY DEF Init, Idle
  <2>4. cfg.secret = started
    BY DEF Init, Loaded
  <2>5. TestNoted /\ TestsSpaced
    BY DEF Init, TestNoted, TestsSpaced
  <2>6. node = {} /\ events = {} /\ tokens = {}
    BY DEF Init
  <2> QED
    BY <2>1, <2>2, <2>3, <2>4, <2>5, <2>6
    DEF IInv, NoncesExpire, VerifyOwnsNonce, LoginsSpent, LoginsProven, TokensFromLogins,
        RequestsOwn, StakesAreOwn
<1>2. IInv /\ [Next]_vars => IInv'
  BY TypeNext, HistoryNext, ChallengesNext, TokensNext, TestsNext, StakesNext
  DEF IInv, Challenges
<1> QED
  BY <1>1, <1>2, PTL DEF Spec

\* The files, the memory of the API process and what it has sent are of their types.
THEOREM TypeCorrect == Spec => []TypeOK
<1>1. IInv => TypeOK
  BY DEF IInv
<1> QED
  BY <1>1, Invariance, PTL

\* Every session was bought with a challenge of its own, answered in time and
\* signed by the wallet of its address, however the requests of any number of
\* handlers interleave (nonceStore.consume, handleAuthVerify).
THEOREM LoginsAreProven == Spec => []LoginsProven
<1>1. IInv => LoginsProven
  BY DEF IInv
<1> QED
  BY <1>1, Invariance, PTL

\* A token is good for SessionTTL, through saves and restarts, unless the process
\* was started with another secret (issueSession, parseSession, applyLiveConfig).
THEOREM SessionsAreKept == Spec => []SessionsLast
<1>1. IInv => SessionsLast
  BY DEF IInv, TokensFromLogins, SessionsLast, ParseSession
<1> QED
  BY <1>1, Invariance, PTL

\* The alert tests that a process lets through are TestInterval apart
\* (handleOperatorAlertTest, alertTestMu).
THEOREM TestsAreSpaced == Spec => []TestsSpaced
<1>1. IInv => TestsSpaced
  BY DEF IInv
<1> QED
  BY <1>1, Invariance, PTL

\* What reaches the node was signed by its sender, who had logged in and asked for
\* this validator; what is announced has reached the node (handleStakeSubmit).
THEOREM StakesOwned == Spec => []StakesAreOwn
<1>1. IInv => StakesAreOwn
  BY DEF IInv
<1> QED
  BY <1>1, Invariance, PTL
=============================================================================
