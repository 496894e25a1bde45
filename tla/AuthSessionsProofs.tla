-------------------------- MODULE AuthSessionsProofs --------------------------
(* Proofs about the refresh tokens of an administrator, for any number of     *)
(* browsers, tabs and requests: a token has one successor, a revocation is    *)
(* complete, a session that is over does not come back, undisturbed browsers  *)
(* stay signed in, and a logout leaves nothing valid.                         *)
EXTENDS AuthSessions, TLAPS

\* Request t has claimed its token and not yet saved the next one.
Claimed(t) == req[t].op = "refresh" /\ req[t].at \in {"lookup", "save"}

\* A refresh that has got as far as the store presents a token.
TokenShown ==
  \A t \in Tab :
    req[t].op = "refresh" /\ req[t].at \in {"consume", "lookup", "save", "find", "revoke"}
      => req[t].token \in Token

Types == TypeOK /\ TokenShown

-----------------------------------------------------------------------------
(* Types.                                                                  *)

LEMMA RequestRecords ==
  /\ Idle \in Requests
  /\ \A r \in Requests, a \in Steps : [r EXCEPT !.at = a] \in Requests
  /\ \A r \in Requests, k \in Token :
       [r EXCEPT !.at = "reply", !.new = k] \in Requests
  /\ \A o \in {"login", "refresh", "logout", "passwd"}, a \in Steps, k \in 0..MaxRequests :
       [op |-> o, at |-> a, token |-> k, new |-> 0] \in Requests
  <1>1. Idle \in Requests
    BY AuthAssumption DEF Idle, Requests, Steps
  <1>2. \A r \in Requests, a \in Steps : [r EXCEPT !.at = a] \in Requests
    BY DEF Requests
  <1>3. ASSUME NEW r \in Requests, NEW k \in Token
        PROVE  [r EXCEPT !.at = "reply", !.new = k] \in Requests
    <2>1. "reply" \in Steps /\ k \in 0..MaxRequests
      BY AuthAssumption DEF Steps, Token
    <2> QED
      BY <2>1 DEF Requests
  <1>4. \A o \in {"login", "refresh", "logout", "passwd"}, a \in Steps, k \in 0..MaxRequests :
          [op |-> o, at |-> a, token |-> k, new |-> 0] \in Requests
    BY AuthAssumption DEF Requests
  <1> QED
    BY <1>1, <1>2, <1>3, <1>4

LEMMA SendTypes ==
  ASSUME Types, NEW t \in Tab,
         NEW o \in {"login", "refresh", "logout", "passwd"}, NEW a \in Steps,
         Send(t, o, a), UNCHANGED <<given, row, stale, cookie, access, mishaps, born, era>>,
         waiting' \in [Tab -> 0..MaxCalls],
         a \in {"consume", "lookup", "save", "find", "revoke"} /\ o = "refresh"
           => cookie[home[t]] # 0
  PROVE  Types'
  <1>1. /\ req' = [req EXCEPT ![t] = [op |-> o, at |-> a, token |-> cookie[home[t]], new |-> 0]]
        /\ sent' = sent + 1 /\ sent < MaxRequests
        /\ excused' \in SUBSET Browser /\ untidy' \in SUBSET Browser /\ left' = left
    BY DEF Send, Types, TypeOK
  <1>2. home[t] \in Browser /\ cookie[home[t]] \in 0..MaxRequests
    BY DEF Types, TypeOK
  <1>3. req' \in [Tab -> Requests]
    BY <1>1, <1>2, RequestRecords DEF Types, TypeOK
  <1>4. sent' \in 0..MaxRequests
    BY <1>1, AuthAssumption DEF Types, TypeOK
  <1>5. TypeOK'
    BY <1>1, <1>3, <1>4 DEF Types, TypeOK, given
  <1>6. TokenShown'
    BY <1>1, <1>2 DEF Types, TypeOK, TokenShown, Token
  <1> QED
    BY <1>5, <1>6 DEF Types

\* A step that sets a request's place, and nothing that has to do with types
\* of tokens.
LEMMA MoveTypes ==
  ASSUME Types, NEW t \in Tab, NEW a \in Steps,
         req' = [req EXCEPT ![t].at = a],
         a \in {"consume", "lookup", "save", "find", "revoke"} /\ req[t].op = "refresh"
           => req[t].at \in {"consume", "lookup", "save", "find", "revoke"}
  PROVE  req' \in [Tab -> Requests] /\ TokenShown'
  <1>1. req' \in [Tab -> Requests]
    BY RequestRecords DEF Types, TypeOK
  <1>2. TokenShown'
    BY DEF Types, TypeOK, Requests, TokenShown
  <1> QED
    BY <1>1, <1>2

LEMMA DoneTypes ==
  ASSUME Types, NEW t \in Tab, Done(t)
  PROVE  req' \in [Tab -> Requests] /\ TokenShown'
  <1>1. req' \in [Tab -> Requests]
    BY RequestRecords DEF Types, TypeOK, Done
  <1>2. TokenShown'
    BY DEF Types, TypeOK, TokenShown, Done, Idle
  <1> QED
    BY <1>1, <1>2

LEMMA RowTypes ==
  ASSUME TypeOK, NEW k \in 0..MaxRequests
  PROVE  /\ ConsumeRefresh(k) => row' \in [Token -> {"none", "live", "used"}]
         /\ RevokeChain(k) => row' \in [Token -> {"none", "live", "used"}]
         /\ RevokeOne(k) => row' \in [Token -> {"none", "live", "used"}]
  <1>1. ConsumeRefresh(k) => row' \in [Token -> {"none", "live", "used"}]
    BY DEF TypeOK, ConsumeRefresh
  <1>2. RevokeChain(k) => row' \in [Token -> {"none", "live", "used"}]
    BY DEF TypeOK, RevokeChain
  <1>3. RevokeOne(k) => row' \in [Token -> {"none", "live", "used"}]
    BY DEF TypeOK, RevokeOne
  <1> QED
    BY <1>1, <1>2, <1>3


LEMMA TypesInit == Init => Types
  <1> SUFFICES ASSUME Init PROVE Types
    OBVIOUS
  <1>1. req \in [Tab -> Requests]
    BY RequestRecords DEF Init
  <1>2. (CHOOSE b \in Browser : TRUE) \in Browser
    BY AuthAssumption
  <1>3. born \in [Token -> [parent : 0..MaxRequests, root : 0..MaxRequests,
                            owner : Browser, era : Nat]]
    BY <1>2, AuthAssumption DEF Init
  <1>4. disabled \in BOOLEAN
    BY DEF Init
  <1>5. TypeOK
    BY <1>1, <1>3, <1>4, AuthAssumption DEF Init, TypeOK
  <1>6. TokenShown
    BY DEF Init, TokenShown, Idle
  <1> QED
    BY <1>5, <1>6 DEF Types

\* What a step leaves alone keeps its type.
LEMMA TypesKept ==
  ASSUME Types, UNCHANGED <<backend, home, born>>, disabled' \in BOOLEAN, req' \in [Tab -> Requests], TokenShown',
         row' \in [Token -> {"none", "live", "used"}], stale' \subseteq Token,
         cookie' \in [Browser -> 0..MaxRequests], access' \subseteq Tab,
         waiting' \in [Tab -> 0..MaxCalls], sent' \in 0..MaxRequests,
         mishaps' \in 0..MaxMishaps, era' \in Nat, excused' \subseteq Browser,
         left' \subseteq Browser, untidy' \subseteq Browser
  PROVE  Types'
  BY DEF Types, TypeOK, given

LEMMA TypesNext == Types /\ [Next]_vars => Types'
  <1> SUFFICES ASSUME Types, [Next]_vars PROVE Types'
    OBVIOUS
  <1> USE DEF given, history
  <1>a. /\ req \in [Tab -> Requests] /\ TokenShown
        /\ row \in [Token -> {"none", "live", "used"}] /\ stale \subseteq Token
        /\ cookie \in [Browser -> 0..MaxRequests] /\ access \subseteq Tab
        /\ waiting \in [Tab -> 0..MaxCalls] /\ sent \in 0..MaxRequests
        /\ mishaps \in 0..MaxMishaps /\ era \in Nat /\ excused \subseteq Browser
        /\ left \subseteq Browser /\ untidy \subseteq Browser
        /\ home \in [Tab -> Browser] /\ disabled \in BOOLEAN
    BY DEF Types, TypeOK
  <1>b. 0 \in 0..MaxCalls /\ 1 \in 0..MaxCalls /\ 0 \in 0..MaxRequests
    BY AuthAssumption
  <1>c. ASSUME NEW B \in SUBSET Browser, Mishap(B)
        PROVE  /\ mishaps' \in 0..MaxMishaps /\ excused' \subseteq Browser
               /\ left' \subseteq Browser /\ untidy' \subseteq Browser
    BY <1>a, <1>c, AuthAssumption DEF Mishap
  <1>1. ASSUME NEW t \in Tab, Call(t) PROVE Types'
    <2>1. waiting' \in [Tab -> 0..MaxCalls]
      BY <1>a, <1>b, <1>1 DEF Call
    <2>2. CASE cookie[home[t]] = 0
      <3>1. Send(t, "refresh", "missing") /\ "missing" \in Steps
        BY <1>1, <2>2 DEF Call, Steps
      <3> QED
        BY <1>1, <2>1, <3>1, SendTypes DEF Call
    <2>3. CASE cookie[home[t]] # 0
      <3>1. Send(t, "refresh", "consume") /\ "consume" \in Steps
        BY <1>1, <2>3 DEF Call, Steps
      <3> QED
        BY <1>1, <2>1, <2>3, <3>1, SendTypes DEF Call
    <2> QED
      BY <2>2, <2>3
  <1>2. ASSUME NEW t \in Tab, Queue(t) PROVE Types'
    <2>1. waiting' \in [Tab -> 0..MaxCalls]
      BY <1>a, <1>2, AuthAssumption DEF Queue
    <2>2. TokenShown'
      BY <1>a, <1>2 DEF Queue, TokenShown
    <2> QED
      BY <1>a, <1>2, <2>1, <2>2, TypesKept DEF Queue
  <1>3. ASSUME NEW t \in Tab, Login(t) PROVE Types'
    <2>1. Send(t, "login", "lookup") /\ "lookup" \in Steps
      BY <1>3 DEF Login, Steps
    <2>2. waiting' \in [Tab -> 0..MaxCalls]
      BY <1>a, <1>3 DEF Login
    <2> QED
      BY <1>3, <2>1, <2>2, SendTypes DEF Login
  <1>4. ASSUME NEW t \in Tab, Logout(t) PROVE Types'
    <2>1. waiting' \in [Tab -> 0..MaxCalls]
      BY <1>a, <1>4 DEF Logout
    <2>2. CASE cookie[home[t]] = 0
      <3>1. Send(t, "logout", "cleared") /\ "cleared" \in Steps
        BY <1>4, <2>2 DEF Logout, Steps
      <3> QED
        BY <1>4, <2>1, <3>1, SendTypes DEF Logout
    <2>3. CASE cookie[home[t]] # 0
      <3>1. Send(t, "logout", "revokeOne") /\ "revokeOne" \in Steps
        BY <1>4, <2>3 DEF Logout, Steps
      <3> QED
        BY <1>4, <2>1, <3>1, SendTypes DEF Logout
    <2> QED
      BY <2>2, <2>3
  <1>5. ASSUME NEW t \in Tab, ChangePassword(t) PROVE Types'
    <2>1. Send(t, "passwd", "verify") /\ "verify" \in Steps
      BY <1>5 DEF ChangePassword, Steps
    <2>2. waiting' \in [Tab -> 0..MaxCalls]
      BY <1>a, <1>5 DEF ChangePassword
    <2> QED
      BY <1>5, <2>1, <2>2, SendTypes DEF ChangePassword
  <1>6. ASSUME NEW t \in Tab, ServerStep(t) PROVE Types'
    <2>0. req[t] \in Requests
      BY <1>a
    <2>a. req[t].token \in 0..MaxRequests
      BY <2>0 DEF Requests
    <2>1. CASE Lookup(t)
      <3>1. req' \in [Tab -> Requests] /\ TokenShown'
        <4>1. CASE Go(t, "save")
          BY <2>1, <4>1, MoveTypes DEF Go, Lookup, Steps
        <4>2. CASE Done(t)
          BY <4>2, DoneTypes
        <4>3. CASE Go(t, "refuse")
          BY <2>1, <4>3, MoveTypes DEF Go, Steps
        <4> QED
          BY <2>1, <4>1, <4>2, <4>3 DEF Lookup
      <3>2. excused' \subseteq Browser /\ untidy' \subseteq Browser
        BY <1>a, <2>1 DEF Lookup
      <3> QED
        BY <1>a, <2>1, <3>1, <3>2, TypesKept DEF Lookup
    <2>2. CASE Save(t)
      <3>1. PICK k \in Token :
              SaveRefresh(t, k) /\ req' = [req EXCEPT ![t].at = "reply", ![t].new = k]
        BY <2>2 DEF Save
      <3> DEFINE old == IF req[t].op = "refresh" THEN req[t].token ELSE 0
                 entry == [parent |-> old, root |-> IF old = 0 THEN k ELSE born[old].root,
                           owner |-> home[t], era |-> era]
      <3>2. req[t].at = "save" /\ UNCHANGED <<given, sent, stale, cookie, access, waiting,
                                              mishaps, era, excused, left, untidy>>
        BY <2>2 DEF Save
      <3>3. old \in 0..MaxRequests /\ (old # 0 => old \in Token)
        BY <3>2, <1>a, <1>b DEF TokenShown, Token
      <3>4. entry \in [parent : 0..MaxRequests, root : 0..MaxRequests,
                       owner : Browser, era : Nat]
        BY <1>a, <3>3, AuthAssumption DEF Types, TypeOK, Token
      <3>5. row' = [row EXCEPT ![k] = "live"] /\ born' = [born EXCEPT ![k] = entry]
        BY <3>1 DEF SaveRefresh
      <3>6. born' \in [Token -> [parent : 0..MaxRequests, root : 0..MaxRequests,
                                 owner : Browser, era : Nat]]
        BY <3>4, <3>5 DEF Types, TypeOK
      <3>7. row' \in [Token -> {"none", "live", "used"}]
        BY <1>a, <3>5
      <3>8. req' \in [Tab -> Requests]
        BY <1>a, <2>0, <3>1, RequestRecords
      <3>9. TokenShown'
        BY <1>a, <2>0, <3>1 DEF TokenShown, Requests
      <3> QED
        BY <1>a, <3>2, <3>6, <3>7, <3>8, <3>9 DEF Types, TypeOK
    <2>3. CASE Consume(t)
      <3>2. row' \in [Token -> {"none", "live", "used"}]
        BY <2>3, <2>a, RowTypes DEF Consume, Types
      <3>3. req' \in [Tab -> Requests] /\ TokenShown'
        <4>1. CASE Live(req[t].token)
          BY <2>3, <4>1, MoveTypes DEF Go, Consume, Steps
        <4>2. CASE ~Live(req[t].token)
          BY <2>3, <4>2, MoveTypes DEF Go, Consume, Steps
        <4> QED
          BY <4>1, <4>2
      <3> QED
        BY <1>a, <2>3, <3>2, <3>3, TypesKept DEF Consume
    <2>4. CASE Find(t)
      <3>1. req' \in [Tab -> Requests] /\ TokenShown'
        <4>1. CASE row[req[t].token] = "none"
          BY <2>4, <4>1, MoveTypes DEF Go, Find, Steps
        <4>2. CASE row[req[t].token] # "none"
          BY <2>4, <4>2, MoveTypes DEF Go, Find, Steps
        <4> QED
          BY <4>1, <4>2
      <3> QED
        BY <1>a, <2>4, <3>1, TypesKept DEF Find
    <2>5. CASE Revoke(t)
      <3>2. row' \in [Token -> {"none", "live", "used"}]
        BY <2>5, <2>a, RowTypes DEF Revoke, Types
      <3>3. req' \in [Tab -> Requests] /\ TokenShown'
        BY <2>5, MoveTypes DEF Go, Revoke, Steps
      <3>4. era' \in Nat /\ excused' \subseteq Browser
        BY <1>a, <2>5 DEF Revoke
      <3> QED
        BY <1>a, <2>5, <3>2, <3>3, <3>4, TypesKept DEF Revoke
    <2>6. CASE RevokeCookie(t)
      <3>2. row' \in [Token -> {"none", "live", "used"}]
        BY <2>6, <2>a, RowTypes DEF RevokeCookie, Types
      <3>3. req' \in [Tab -> Requests] /\ TokenShown'
        BY <2>6, MoveTypes DEF Go, RevokeCookie, Steps
      <3> QED
        BY <1>a, <2>6, <3>2, <3>3, TypesKept DEF RevokeCookie
    <2>7. CASE Verify(t)
      <3>1. CASE Go(t, "write") /\ UNCHANGED <<waiting, sent>>
        <4>1. req' \in [Tab -> Requests] /\ TokenShown'
          BY <3>1, MoveTypes DEF Go, Steps
        <4> QED
          BY <1>a, <2>7, <3>1, <4>1, TypesKept DEF Verify
      <3>2. CASE /\ sent < MaxRequests /\ sent' = sent + 1
                 /\ req' = [req EXCEPT ![t] =
                      [op |-> "refresh", token |-> cookie[home[t]], new |-> 0,
                       at |-> IF cookie[home[t]] = 0 THEN "missing" ELSE "consume"]]
                 /\ waiting' = [waiting EXCEPT ![t] = 1]
        <4>1. cookie[home[t]] \in 0..MaxRequests
          BY <1>a
        <4>2. req' \in [Tab -> Requests]
          BY <1>a, <3>2, <4>1, RequestRecords DEF Steps
        <4>3. TokenShown'
          BY <1>a, <3>2, <4>1 DEF TokenShown, Token
        <4>4. sent' \in 0..MaxRequests /\ waiting' \in [Tab -> 0..MaxCalls]
          BY <1>a, <1>b, <3>2, AuthAssumption
        <4> QED
          BY <1>a, <2>7, <4>2, <4>3, <4>4, TypesKept DEF Verify
      <3> QED
        BY <2>7, <3>1, <3>2 DEF Verify
    <2>8. CASE Write(t)
      <3>1. req' \in [Tab -> Requests] /\ TokenShown'
        BY <2>8, DoneTypes DEF Write
      <3> QED
        BY <1>a, <2>8, <3>1, TypesKept DEF Write
    <2> QED
      BY <1>6, <2>1, <2>2, <2>3, <2>4, <2>5, <2>6, <2>7, <2>8 DEF ServerStep
  <1>7. ASSUME NEW t \in Tab, Answer(t) PROVE Types'
    <2>1. Done(t)
      BY <1>7 DEF Answer, Reply, Refuse, SignedOut
    <2>2. req' \in [Tab -> Requests] /\ TokenShown'
      BY <2>1, DoneTypes
    <2>3. req[t].new \in 0..MaxRequests /\ home[t] \in Browser
      BY <1>a DEF Requests
    <2>4. cookie' \in [Browser -> 0..MaxRequests]
      BY <1>a, <1>b, <1>7, <2>3 DEF Answer, Reply, Refuse, SignedOut
    <2>5. waiting' \in [Tab -> 0..MaxCalls]
      BY <1>a, <1>b, <1>7 DEF Answer, Reply, Refuse, SignedOut
    <2>6. access' \subseteq Tab /\ excused' \subseteq Browser /\ left' \subseteq Browser
      BY <1>a, <1>7, <2>3 DEF Answer, Reply, Refuse, SignedOut
    <2>7. UNCHANGED <<given, sent, row, stale, mishaps, born, era, untidy>>
      BY <1>7 DEF Answer, Reply, Refuse, SignedOut
    <2> QED
      BY <1>a, <2>2, <2>4, <2>5, <2>6, <2>7, TypesKept
  <1>8. ASSUME NEW t \in Tab, StoreFails(t) PROVE Types'
    <2>1. Mishap({home[t]}) /\ {home[t]} \in SUBSET Browser
      BY <1>a, <1>8 DEF StoreFails
    <2>2. req' \in [Tab -> Requests] /\ TokenShown'
      <3>1. CASE req[t].op # "refresh"
        <4>1. Done(t)
          BY <1>8, <3>1 DEF StoreFails, Done
        <4> QED
          BY <4>1, DoneTypes
      <3>2. CASE req[t].op = "refresh" /\ req[t].at = "consume"
        <4>1. req' = [req EXCEPT ![t].at = "find"]
          BY <1>8, <3>2 DEF StoreFails
        <4> QED
          BY <3>2, <4>1, MoveTypes DEF Steps
      <3>3. CASE req[t].op = "refresh" /\ req[t].at # "consume"
        <4>1. req' = [req EXCEPT ![t].at = "refuse"]
          BY <1>8, <3>3 DEF StoreFails
        <4> QED
          BY <4>1, MoveTypes DEF Steps
      <3> QED
        BY <3>1, <3>2, <3>3
    <2>3. access' \subseteq Tab
      BY <1>a, <1>8 DEF StoreFails
    <2> QED
      BY <1>a, <1>c, <1>8, <2>1, <2>2, <2>3, TypesKept DEF StoreFails
  <1>9. ASSUME NEW t \in Tab, Lost(t) PROVE Types'
    <2>1. Mishap({home[t]}) /\ {home[t]} \in SUBSET Browser
      BY <1>a, <1>9 DEF Lost
    <2>2. req' \in [Tab -> Requests] /\ TokenShown'
      BY <1>9, DoneTypes DEF Lost
    <2>3. access' \subseteq Tab /\ waiting' \in [Tab -> 0..MaxCalls]
      BY <1>a, <1>b, <1>9 DEF Lost
    <2> QED
      BY <1>a, <1>c, <1>9, <2>1, <2>2, <2>3, TypesKept DEF Lost
  <1>10. ASSUME NEW t \in Tab, AccessExpires(t) PROVE Types'
    <2>1. TokenShown' /\ access' \subseteq Tab
      BY <1>a, <1>10 DEF AccessExpires, TokenShown
    <2> QED
      BY <1>a, <1>10, <2>1, TypesKept DEF AccessExpires
  <1>11. ASSUME NEW k \in Token, RefreshExpires(k) PROVE Types'
    <2>1. PICK B \in SUBSET Browser : Mishap(B)
      BY <1>11 DEF RefreshExpires
    <2>2. TokenShown' /\ stale' \subseteq Token
      BY <1>a, <1>11 DEF RefreshExpires, TokenShown
    <2> QED
      BY <1>a, <1>c, <1>11, <2>1, <2>2, TypesKept DEF RefreshExpires
  <1>12. ASSUME Restart PROVE Types'
    <2>1. Mishap(Browser) /\ Browser \in SUBSET Browser
      BY <1>12 DEF Restart
    <2>2. req' \in [Tab -> Requests]
      BY <1>12, RequestRecords DEF Restart
    <2>3. TokenShown'
      BY <1>12 DEF Restart, TokenShown, Idle
    <2>4. row' \in [Token -> {"none", "live", "used"}] /\ access' \subseteq Tab
          /\ waiting' \in [Tab -> 0..MaxCalls]
      BY <1>a, <1>b, <1>12 DEF Restart
    <2> QED
      BY <1>a, <1>c, <1>12, <2>1, <2>2, <2>3, <2>4, TypesKept DEF Restart
  <1>13. ASSUME SetEnabled PROVE Types'
    <2>1. Mishap(Browser) /\ Browser \in SUBSET Browser
      BY <1>13 DEF SetEnabled
    <2>2. TokenShown' /\ disabled' \in BOOLEAN
      BY <1>a, <1>13 DEF SetEnabled, TokenShown
    <2> QED
      BY <1>a, <1>c, <1>13, <2>1, <2>2, TypesKept DEF SetEnabled
  <1>14. CASE UNCHANGED vars
    BY <1>14 DEF vars, Types, TypeOK, TokenShown
  <1> QED
    BY <1>1, <1>2, <1>3, <1>4, <1>5, <1>6, <1>7, <1>8, <1>9, <1>10, <1>11, <1>12, <1>13,
       <1>14 DEF Next

\* Requests, rows, cookies and what is remembered of each token stay of their
\* types, and a refresh in the store presents a token.
THEOREM TypeCorrect == Spec => []TypeOK
  <1>1. Types => TypeOK
    BY DEF Types
  <1> QED
    BY <1>1, TypesInit, TypesNext, PTL DEF Spec

-----------------------------------------------------------------------------
(* The shapes of a step.  Only two touch the chains of tokens: a request    *)
(* claims its token, or saves the next one.  Every other step at most takes *)
(* away: rows that are live, tokens that are claimed.                       *)

TakesToken(t) ==
  /\ req[t].op = "refresh" /\ req[t].at = "consume"
  /\ Live(req[t].token)
  /\ row' = [row EXCEPT ![req[t].token] = "used"]
  /\ req' = [req EXCEPT ![t].at = "lookup"]
  /\ UNCHANGED <<stale, born, era>>

TakesAway ==
  /\ UNCHANGED born
  /\ stale' \subseteq stale \cup {k \in Token : Live(k)}
  /\ stale \subseteq stale'
  /\ \A k \in Token : row'[k] = "live" => row[k] = "live"
  /\ \A t \in Tab : Claimed(t)' => Claimed(t) /\ req'[t].token = req[t].token
  /\ era' = era \/ \A k \in Token : row'[k] = "live" => k \in stale'

LEMMA Shapes ==
  ASSUME Types, [Next]_vars
  PROVE  (\E t \in Tab : Save(t) \/ TakesToken(t)) \/ TakesAway
  <1> SUFFICES ASSUME ~ \E t \in Tab : Save(t) \/ TakesToken(t) PROVE TakesAway
    OBVIOUS
  <1> USE DEF given, history, Claimed
  <1>a. /\ req \in [Tab -> Requests] /\ row \in [Token -> {"none", "live", "used"}]
        /\ stale \subseteq Token /\ TokenShown
    BY DEF Types, TypeOK
  <1>b. ASSUME UNCHANGED <<born, row, stale, era>>,
               \A t \in Tab : Claimed(t)' => Claimed(t) /\ req'[t].token = req[t].token
        PROVE  TakesAway
    BY <1>b DEF TakesAway
  <1>c. ASSUME NEW t \in Tab, NEW o, NEW a, Send(t, o, a), a \notin {"lookup", "save"} \/ o # "refresh"
        PROVE  \A u \in Tab : Claimed(u)' => Claimed(u) /\ req'[u].token = req[u].token
    BY <1>a, <1>c DEF Send
  <1>d. ASSUME NEW t \in Tab, Done(t)
        PROVE  \A u \in Tab : Claimed(u)' => Claimed(u) /\ req'[u].token = req[u].token
    BY <1>a, <1>d DEF Done, Idle
  <1>e. ASSUME NEW t \in Tab, NEW a, req' = [req EXCEPT ![t].at = a],
               a \notin {"lookup", "save"} \/ req[t].op # "refresh" \/ Claimed(t)
        PROVE  \A u \in Tab : Claimed(u)' => Claimed(u) /\ req'[u].token = req[u].token
    BY <1>a, <1>e DEF Requests
  <1>1. ASSUME NEW t \in Tab, Call(t) \/ Queue(t) \/ Login(t) \/ Logout(t) \/ ChangePassword(t)
        PROVE  TakesAway
    <2>1. CASE Call(t)
      <3>1. PICK a \in {"missing", "consume"} : Send(t, "refresh", a)
        BY <2>1 DEF Call
      <3> QED
        BY <1>b, <1>c, <2>1, <3>1 DEF Call
    <2>2. CASE Queue(t)
      BY <1>b, <2>2 DEF Queue
    <2>3. CASE Login(t)
      BY <1>b, <1>c, <2>3 DEF Login
    <2>4. CASE Logout(t)
      <3>1. PICK a : Send(t, "logout", a)
        BY <2>4 DEF Logout
      <3> QED
        BY <1>b, <1>c, <2>4, <3>1 DEF Logout
    <2>5. CASE ChangePassword(t)
      BY <1>b, <1>c, <2>5 DEF ChangePassword
    <2> QED
      BY <1>1, <2>1, <2>2, <2>3, <2>4, <2>5
  <1>2. ASSUME NEW t \in Tab, ServerStep(t) PROVE TakesAway
    <2>1. CASE Lookup(t)
      <3>1. \A u \in Tab : Claimed(u)' => Claimed(u) /\ req'[u].token = req[u].token
        BY <1>d, <1>e, <2>1 DEF Lookup, Go
      <3> QED
        BY <1>b, <2>1, <3>1 DEF Lookup
    <2>2. CASE Consume(t)
      <3>1. CASE req[t].op = "refresh" /\ Live(req[t].token)
        <4>1. req[t].token \in Token
          BY <1>a, <2>2, <3>1 DEF Consume, TokenShown
        <4>2. row' = [row EXCEPT ![req[t].token] = "used"]
          BY <2>2, <3>1 DEF Consume, ConsumeRefresh, Live
        <4>3. TakesToken(t)
          BY <2>2, <3>1, <4>2 DEF Consume, Go, TakesToken
        <4> QED
          BY <4>3
      <3>2. CASE ~(req[t].op = "refresh" /\ Live(req[t].token))
        <4>1. \A u \in Tab : Claimed(u)' => Claimed(u) /\ req'[u].token = req[u].token
          BY <1>e, <2>2, <3>2 DEF Consume, Go
        <4>2. \A k \in Token : row'[k] = "live" => row[k] = "live"
          BY <1>a, <2>2 DEF Consume, ConsumeRefresh
        <4> QED
          BY <2>2, <4>1, <4>2 DEF Consume, TakesAway
      <3> QED
        BY <3>1, <3>2
    <2>3. CASE Find(t)
      <3>1. PICK a \in {"refuse", "revoke"} : Go(t, a)
        BY <2>3 DEF Find
      <3>2. \A u \in Tab : Claimed(u)' => Claimed(u) /\ req'[u].token = req[u].token
        BY <1>e, <3>1 DEF Go
      <3> QED
        BY <1>b, <2>3, <3>2 DEF Find
    <2>4. CASE Revoke(t)
      <3>1. \A u \in Tab : Claimed(u)' => Claimed(u) /\ req'[u].token = req[u].token
        BY <1>e, <2>4 DEF Revoke, Go
      <3>2. \A k \in Token : row'[k] = "live" => row[k] = "live" /\ k \in stale'
        BY <1>a, <2>4 DEF Revoke, RevokeChain, Live
      <3> QED
        BY <2>4, <3>1, <3>2 DEF Revoke, TakesAway
    <2>5. CASE RevokeCookie(t)
      <3>1. \A u \in Tab : Claimed(u)' => Claimed(u) /\ req'[u].token = req[u].token
        BY <1>e, <2>5 DEF RevokeCookie, Go
      <3>2. \A k \in Token : row'[k] = "live" => row[k] = "live"
        BY <1>a, <2>5 DEF RevokeCookie, RevokeOne
      <3> QED
        BY <2>5, <3>1, <3>2 DEF RevokeCookie, TakesAway
    <2>6. CASE Verify(t)
      <3>1. \A u \in Tab : Claimed(u)' => Claimed(u) /\ req'[u].token = req[u].token
        <4>1. CASE Go(t, "write")
          BY <1>e, <4>1 DEF Go
        <4>2. CASE req' = [req EXCEPT ![t] =
                     [op |-> "refresh", token |-> cookie[home[t]], new |-> 0,
                      at |-> IF cookie[home[t]] = 0 THEN "missing" ELSE "consume"]]
          BY <1>a, <4>2
        <4> QED
          BY <2>6, <4>1, <4>2 DEF Verify
      <3> QED
        BY <1>b, <2>6, <3>1 DEF Verify
    <2>7. CASE Write(t)
      BY <1>b, <1>d, <2>7 DEF Write
    <2>8. ~Save(t)
      OBVIOUS
    <2> QED
      BY <1>2, <2>1, <2>2, <2>3, <2>4, <2>5, <2>6, <2>7, <2>8 DEF ServerStep
  <1>3. ASSUME NEW t \in Tab, Answer(t) PROVE TakesAway
    <2>1. Done(t) /\ UNCHANGED <<born, row, stale, era>>
      BY <1>3 DEF Answer, Reply, Refuse, SignedOut
    <2> QED
      BY <1>b, <1>d, <2>1
  <1>4. ASSUME NEW t \in Tab, StoreFails(t) PROVE TakesAway
    <2>1. \A u \in Tab : Claimed(u)' => Claimed(u) /\ req'[u].token = req[u].token
      <3>1. CASE req[t].op # "refresh"
        BY <1>d, <1>4, <3>1 DEF StoreFails, Done
      <3>2. CASE req[t].op = "refresh"
        <4>1. PICK a \in {"find", "refuse"} : req' = [req EXCEPT ![t].at = a]
          BY <1>4, <3>2 DEF StoreFails
        <4> QED
          BY <1>e, <4>1
      <3> QED
        BY <3>1, <3>2
    <2> QED
      BY <1>b, <1>4, <2>1 DEF StoreFails
  <1>5. ASSUME NEW t \in Tab, Lost(t) PROVE TakesAway
    BY <1>b, <1>d, <1>5 DEF Lost
  <1>6. ASSUME NEW t \in Tab, AccessExpires(t) PROVE TakesAway
    BY <1>b, <1>6 DEF AccessExpires
  <1>7. ASSUME NEW k \in Token, RefreshExpires(k) PROVE TakesAway
    BY <1>a, <1>7 DEF RefreshExpires, TakesAway
  <1>8. ASSUME Restart PROVE TakesAway
    <2>1. \A u \in Tab : ~Claimed(u)'
      BY <1>8 DEF Restart, Idle
    <2>2. \A k \in Token : row'[k] = "live" => row[k] = "live"
      BY <1>8 DEF Restart
    <2> QED
      BY <1>8, <2>1, <2>2 DEF Restart, TakesAway
  <1>9. ASSUME SetEnabled PROVE TakesAway
    BY <1>b, <1>9 DEF SetEnabled
  <1>10. CASE UNCHANGED vars
    BY <1>b, <1>10 DEF vars
  <1> QED
    BY <1>1, <1>2, <1>3, <1>4, <1>5, <1>6, <1>7, <1>8, <1>9, <1>10 DEF Next

-----------------------------------------------------------------------------
(* A token has one successor.  A claimed token is in the hands of one       *)
(* request and its row is not live again, nor is a token's that has a       *)
(* successor; so no second request can claim it.                            *)

IssuedKnown ==
  /\ \A k \in Token : row[k] = "live" => k \in Issued
  /\ stale \subseteq Issued
  /\ \A t \in Tab : Claimed(t) => req[t].token \in Issued
  /\ \A k \in Issued : born[k].root \in Issued
  /\ \A k \in Issued : born[k].parent # 0 => born[k].parent \in Issued

ClaimedOnce ==
  /\ \A t \in Tab : Claimed(t) => row[req[t].token] # "live"
  /\ \A t, u \in Tab : Claimed(t) /\ Claimed(u) /\ t # u => req[t].token # req[u].token

SucceededOnce ==
  /\ \A k \in Issued : born[k].parent # 0 => row[born[k].parent] # "live"
  /\ \A t \in Tab, k \in Issued : Claimed(t) => born[k].parent # req[t].token
  /\ OneSuccessor

Chains == IssuedKnown /\ ClaimedOnce /\ SucceededOnce /\ RevocationComplete
ChainInv == Types /\ Chains

LEMMA ChainInit == Init => ChainInv
  <1> SUFFICES ASSUME Init PROVE ChainInv
    OBVIOUS
  <1>1. Issued = {}
    BY DEF Init, Issued
  <1>2. \A t \in Tab : ~Claimed(t)
    BY DEF Init, Claimed, Idle
  <1>3. \A k \in Token : row[k] # "live"
    BY DEF Init
  <1>4. IssuedKnown
    BY <1>1, <1>2, <1>3 DEF IssuedKnown, Init
  <1>5. ClaimedOnce /\ SucceededOnce
    BY <1>1, <1>2 DEF ClaimedOnce, SucceededOnce, OneSuccessor
  <1>6. RevocationComplete
    BY <1>3 DEF RevocationComplete, Live
  <1> QED
    BY <1>4, <1>5, <1>6, TypesInit DEF ChainInv, Chains

\* What is known of the state after a request has saved token k.
LEMMA SaveShape ==
  ASSUME Types, IssuedKnown, NEW t \in Tab, Save(t)
  PROVE  \E k \in Token :
           LET old == born'[k].parent IN
           /\ k \notin Issued /\ row[k] # "live" /\ k \notin stale
           /\ Issued' = Issued \cup {k}
           /\ row' = [row EXCEPT ![k] = "live"]
           /\ \A j \in Issued : born'[j] = born[j]
           /\ born'[k].era = era
           /\ \/ Claimed(t) /\ old = req[t].token /\ born'[k].root = born[old].root
              \/ ~Claimed(t) /\ old = 0 /\ born'[k].root = k
           /\ ~Claimed(t)'
           /\ \A u \in Tab \ {t} : req'[u] = req[u]
           /\ UNCHANGED <<stale, era>>
  <1>1. PICK k \in Token :
          SaveRefresh(t, k) /\ req' = [req EXCEPT ![t].at = "reply", ![t].new = k]
    BY DEF Save
  <1> DEFINE old == IF req[t].op = "refresh" THEN req[t].token ELSE 0
             entry == [parent |-> old, root |-> IF old = 0 THEN k ELSE born[old].root,
                       owner |-> home[t], era |-> era]
  <1>2. req[t].at = "save" /\ UNCHANGED <<stale, era>>
    BY DEF Save
  <1>3. /\ row[k] = "none" /\ k \notin Issued
        /\ row' = [row EXCEPT ![k] = "live"] /\ born' = [born EXCEPT ![k] = entry]
    BY <1>1 DEF SaveRefresh
  <1>4. born'[k] = entry /\ \A j \in Token \ {k} : born'[j] = born[j]
    BY <1>3 DEF Types, TypeOK
  <1>5. old # 0 => Claimed(t) /\ old = req[t].token /\ old \in Issued
    BY <1>2 DEF Claimed, IssuedKnown
  <1>6. old = 0 => ~Claimed(t)
    BY <1>2 DEF Claimed, Types, TokenShown, Token
  <1>7. entry.root # 0
    BY <1>5 DEF Issued, Token
  <1>8. Issued' = Issued \cup {k}
    BY <1>4, <1>7 DEF Issued
  <1>9. \A j \in Issued : born'[j] = born[j]
    BY <1>3, <1>4 DEF Issued
  <1>10. ~Claimed(t)' /\ \A u \in Tab \ {t} : req'[u] = req[u]
    BY <1>1 DEF Types, TypeOK, Claimed, Requests
  <1>11. /\ born'[k].era = era
         /\ \/ Claimed(t) /\ born'[k].parent = req[t].token
               /\ born'[k].root = born[born'[k].parent].root
            \/ ~Claimed(t) /\ born'[k].parent = 0 /\ born'[k].root = k
    BY <1>4, <1>5, <1>6
  <1>12. k \notin stale
    BY <1>3 DEF IssuedKnown
  <1> QED
    BY <1>2, <1>3, <1>8, <1>9, <1>10, <1>11, <1>12

LEMMA ChainSave ==
  ASSUME ChainInv, NEW t \in Tab, Save(t)
  PROVE  Chains'
  <1> USE DEF ChainInv, Chains
  <1>1. PICK k \in Token :
           LET old == born'[k].parent IN
           /\ k \notin Issued /\ row[k] # "live" /\ k \notin stale
           /\ Issued' = Issued \cup {k}
           /\ row' = [row EXCEPT ![k] = "live"]
           /\ \A j \in Issued : born'[j] = born[j]
           /\ born'[k].era = era
           /\ \/ Claimed(t) /\ old = req[t].token /\ born'[k].root = born[old].root
              \/ ~Claimed(t) /\ old = 0 /\ born'[k].root = k
           /\ ~Claimed(t)'
           /\ \A u \in Tab \ {t} : req'[u] = req[u]
           /\ UNCHANGED <<stale, era>>
    BY SaveShape
  <1>a. row \in [Token -> {"none", "live", "used"}] /\ Issued \subseteq Token /\ 0 \notin Token
    BY DEF Types, TypeOK, Issued, Token
  <1>b. \A u \in Tab : Claimed(u)' => u # t /\ Claimed(u) /\ req'[u].token = req[u].token
    BY <1>1 DEF Claimed
  <1>2. IssuedKnown'
    BY <1>1, <1>a, <1>b DEF IssuedKnown
  <1>3. ClaimedOnce'
    BY <1>1, <1>a, <1>b DEF ClaimedOnce, IssuedKnown
  <1>4. \A j \in Issued' : born'[j].parent # 0 => row'[born'[j].parent] # "live"
    BY <1>1, <1>a DEF SucceededOnce, IssuedKnown, ClaimedOnce
  <1>5. \A u \in Tab, j \in Issued' : Claimed(u)' => born'[j].parent # req'[u].token
    <2>1. SUFFICES ASSUME NEW u \in Tab, NEW j \in Issued', Claimed(u)'
                   PROVE  born'[j].parent # req'[u].token
      OBVIOUS
    <2>2. u # t /\ Claimed(u) /\ req'[u].token = req[u].token /\ req[u].token \in Issued
      BY <1>b, <2>1 DEF IssuedKnown
    <2>3. CASE j \in Issued
      BY <1>1, <2>2, <2>3 DEF SucceededOnce
    <2>4. CASE j = k
      BY <1>1, <1>a, <2>2, <2>4 DEF ClaimedOnce
    <2> QED
      BY <1>1, <2>3, <2>4
  <1>6. OneSuccessor'
    <2>1. \A i, j \in Issued : i # j /\ born'[i].parent # 0 => born'[i].parent # born'[j].parent
      BY <1>1 DEF SucceededOnce, OneSuccessor
    <2>2. \A j \in Issued : born'[k].parent # 0 => born'[j].parent # born'[k].parent
      BY <1>1 DEF SucceededOnce
    <2> QED
      BY <1>1, <2>1, <2>2 DEF OneSuccessor
  <1>7. RevocationComplete'
    BY <1>1, <1>a DEF RevocationComplete, Live, Issued, IssuedKnown
  <1> QED
    BY <1>2, <1>3, <1>4, <1>5, <1>6, <1>7 DEF SucceededOnce

LEMMA ChainTake ==
  ASSUME ChainInv, NEW t \in Tab, TakesToken(t)
  PROVE  Chains'
  <1> USE DEF ChainInv, Chains
  <1> DEFINE k == req[t].token
  <1>1. /\ k \in Token /\ row[k] = "live" /\ k \in Issued
        /\ row' = [row EXCEPT ![k] = "used"]
        /\ UNCHANGED <<stale, born, era>> /\ Issued' = Issued
    BY DEF TakesToken, Types, TokenShown, Live, IssuedKnown, Issued
  <1>2. /\ req'[t].token = k
        /\ \A u \in Tab \ {t} : req'[u] = req[u]
    BY DEF TakesToken, Types, TypeOK
  <1>a. row \in [Token -> {"none", "live", "used"}] /\ Issued \subseteq Token
    BY DEF Types, TypeOK, Issued
  <1>b. \A u \in Tab : Claimed(u)' /\ u # t => Claimed(u) /\ req'[u].token = req[u].token
    BY <1>2 DEF Claimed
  <1>3. \A j \in Token : row'[j] = "live" => row[j] = "live"
    BY <1>1, <1>a
  <1>4. IssuedKnown'
    BY <1>1, <1>2, <1>3, <1>b DEF IssuedKnown
  <1>5. ClaimedOnce'
    <2>1. \A u \in Tab : Claimed(u)' => row'[req'[u].token] # "live"
      BY <1>1, <1>2, <1>3, <1>a, <1>b DEF ClaimedOnce, IssuedKnown
    <2>2. \A u \in Tab \ {t} : Claimed(u)' => req'[u].token # k
      BY <1>1, <1>b DEF ClaimedOnce
    <2>3. \A u, v \in Tab : Claimed(u)' /\ Claimed(v)' /\ u # v => req'[u].token # req'[v].token
      BY <1>2, <1>b, <2>2 DEF ClaimedOnce
    <2> QED
      BY <2>1, <2>3 DEF ClaimedOnce
  <1>6. SucceededOnce'
    <2>1. \A j \in Issued : born[j].parent # 0 => row'[born[j].parent] # "live"
      BY <1>1, <1>3, <1>a DEF SucceededOnce, IssuedKnown
    <2>2. \A j \in Issued : born[j].parent # k
      BY <1>1 DEF SucceededOnce, Token
    <2>3. \A u \in Tab, j \in Issued : Claimed(u)' => born[j].parent # req'[u].token
      BY <1>2, <1>b, <2>2 DEF SucceededOnce
    <2> QED
      BY <1>1, <2>1, <2>3 DEF SucceededOnce, OneSuccessor
  <1>7. RevocationComplete'
    BY <1>1, <1>3 DEF RevocationComplete, Live
  <1> QED
    BY <1>4, <1>5, <1>6, <1>7

LEMMA ChainTakesAway ==
  ASSUME ChainInv, TakesAway
  PROVE  Chains'
  <1> USE DEF ChainInv, Chains
  <1>1. Issued' = Issued /\ born' = born /\ Issued \subseteq Token
    BY DEF TakesAway, Issued
  <1>2. \A k \in Token : row'[k] = "live" => row[k] = "live"
    BY DEF TakesAway
  <1>3. \A t \in Tab : Claimed(t)' => Claimed(t) /\ req'[t].token = req[t].token
    BY DEF TakesAway
  <1>4. IssuedKnown'
    BY <1>1, <1>2, <1>3 DEF IssuedKnown, TakesAway, Live
  <1>5. ClaimedOnce'
    BY <1>1, <1>2, <1>3 DEF ClaimedOnce, IssuedKnown
  <1>6. SucceededOnce'
    BY <1>1, <1>2, <1>3 DEF SucceededOnce, IssuedKnown, OneSuccessor
  <1>7. RevocationComplete'
    BY <1>1, <1>2 DEF RevocationComplete, TakesAway, Live
  <1> QED
    BY <1>4, <1>5, <1>6, <1>7

LEMMA ChainNext == ChainInv /\ [Next]_vars => ChainInv'
  <1> SUFFICES ASSUME ChainInv, [Next]_vars PROVE ChainInv'
    OBVIOUS
  <1>1. Types'
    BY TypesNext DEF ChainInv
  <1>2. CASE \E t \in Tab : Save(t)
    BY <1>1, <1>2, ChainSave DEF ChainInv
  <1>3. CASE \E t \in Tab : TakesToken(t)
    BY <1>1, <1>3, ChainTake DEF ChainInv
  <1>4. CASE TakesAway
    BY <1>1, <1>4, ChainTakesAway DEF ChainInv
  <1> QED
    BY <1>2, <1>3, <1>4, Shapes DEF ChainInv

LEMMA ChainAlways == Spec => []ChainInv
  BY ChainInit, ChainNext, PTL DEF Spec

\* However many requests present the same refresh token, and however their
\* store calls interleave, one of them at most saves a successor.
THEOREM TokenExchangedOnce == Spec => []OneSuccessor
  <1>1. ChainInv => OneSuccessor
    BY DEF ChainInv, Chains, SucceededOnce
  <1> QED
    BY <1>1, ChainAlways, PTL

\* After a revocation of the chain no token saved before it is valid, whatever
\* was under way at the time.
THEOREM RevokedForGood == Spec => []RevocationComplete
  <1>1. ChainInv => RevocationComplete
    BY DEF ChainInv, Chains
  <1> QED
    BY <1>1, ChainAlways, PTL

-----------------------------------------------------------------------------
(* The chains implement the abstract family of sessions.                   *)

Roots == {born[k].root : k \in Issued}

LEMMA OpenIssued ==
  ASSUME ChainInv
  PROVE  /\ Continuing \subseteq Issued
         /\ OpenSessions \subseteq Roots
         /\ Roots \subseteq Issued /\ Issued \subseteq Token
         /\ EndedSessions = Roots \ OpenSessions
  <1>1. Continuing \subseteq Issued
    BY DEF ChainInv, Chains, IssuedKnown, Continuing, Live, Claimed
  <1>2. Roots \subseteq Issued /\ Issued \subseteq Token
    BY DEF Roots, ChainInv, Chains, IssuedKnown, Issued
  <1>3. OpenSessions \subseteq Roots
    BY <1>1 DEF OpenSessions, Roots
  <1> QED
    BY <1>1, <1>2, <1>3 DEF EndedSessions, Roots

LEMMA ContinuingIs ==
  Continuing = {k \in Token : Live(k)} \cup {req[t].token : t \in {u \in Tab : Claimed(u)}}
  BY DEF Continuing, Claimed

LEMMA FamilyInit == Init => Family!Init
  <1> SUFFICES ASSUME Init PROVE Family!Init
    OBVIOUS
  <1>1. Issued = {}
    BY DEF Init, Issued
  <1>2. Continuing = {}
    BY DEF Init, Continuing, Live, Idle
  <1> QED
    BY <1>1, <1>2 DEF Family!Init, OpenSessions, EndedSessions

\* A step that only takes away ends the sessions that nothing continues.
LEMMA FamilyShrinks ==
  ASSUME ChainInv, ChainInv', TakesAway
  PROVE  Family!Next \/ UNCHANGED <<OpenSessions, EndedSessions>>
  <1>1. Issued' = Issued /\ born' = born
    BY DEF TakesAway, Issued
  <1>2. Continuing' \subseteq Continuing
    <2>1. \A k \in Token : Live(k)' => Live(k)
      BY DEF TakesAway, Live
    <2>2. \A t \in Tab : Claimed(t)' => Claimed(t) /\ req'[t].token = req[t].token
      BY DEF TakesAway
    <2>3. Continuing' = {k \in Token : Live(k)'}
                        \cup {req'[t].token : t \in {u \in Tab : Claimed(u)'}}
      BY ContinuingIs DEF Continuing, Claimed
    <2> QED
      BY <2>1, <2>2, <2>3, ContinuingIs
  <1>3. OpenSessions' \subseteq OpenSessions /\ Roots' = Roots
    BY <1>1, <1>2 DEF OpenSessions, Roots
  <1>4. /\ EndedSessions = Roots \ OpenSessions /\ EndedSessions' = Roots \ OpenSessions'
        /\ OpenSessions \subseteq Roots /\ Roots \subseteq Token
    BY <1>3, OpenIssued DEF EndedSessions, Roots
  <1> DEFINE S == OpenSessions \ OpenSessions'
  <1>5. CASE S = {}
    BY <1>3, <1>4, <1>5
  <1>6. CASE S # {}
    <2>1. S \in SUBSET Token
      BY <1>4
    <2>2. Family!End(S)
      BY <1>3, <1>4, <1>6 DEF Family!End
    <2> QED
      BY <2>1, <2>2 DEF Family!Next
  <1> QED
    BY <1>5, <1>6

\* A claim moves a token from its row to the request.
LEMMA FamilyTakes ==
  ASSUME ChainInv, NEW t \in Tab, TakesToken(t)
  PROVE  UNCHANGED <<OpenSessions, EndedSessions>>
  <1> DEFINE k == req[t].token
  <1>1. /\ k \in Token /\ Live(k)
        /\ row' = [row EXCEPT ![k] = "used"]
        /\ UNCHANGED <<stale, born>> /\ Issued' = Issued
    BY DEF TakesToken, ChainInv, Types, TokenShown, Issued
  <1>2. /\ req'[t].token = k /\ Claimed(t)' /\ ~Claimed(t)
        /\ \A u \in Tab \ {t} : req'[u] = req[u]
    BY DEF TakesToken, ChainInv, Types, TypeOK, Claimed
  <1>3. \A j \in Token : Live(j)' <=> Live(j) /\ j # k
    BY <1>1 DEF Live, ChainInv, Types, TypeOK
  <1>4. \A u \in Tab \ {t} : (Claimed(u)' <=> Claimed(u)) /\ req'[u].token = req[u].token
    BY <1>2 DEF Claimed
  <1>5. {j \in Token : Live(j)'} = {j \in Token : Live(j)} \ {k}
    BY <1>3
  <1>6. {req'[u].token : u \in {v \in Tab : Claimed(v)'}}
          = {req[u].token : u \in {v \in Tab : Claimed(v)}} \cup {k}
    BY <1>2, <1>4
  <1>7. Continuing' = {j \in Token : Live(j)'}
                      \cup {req'[u].token : u \in {v \in Tab : Claimed(v)'}}
    BY ContinuingIs DEF Continuing, Claimed
  <1>8. Continuing' = Continuing
    BY <1>1, <1>5, <1>6, <1>7, ContinuingIs
  <1> QED
    BY <1>1, <1>8 DEF OpenSessions, EndedSessions

\* A login opens the session of the token it saves; a refresh carries its
\* session on.
LEMMA FamilySaves ==
  ASSUME ChainInv, ChainInv', NEW t \in Tab, Save(t)
  PROVE  Family!Next \/ UNCHANGED <<OpenSessions, EndedSessions>>
  <1>1. PICK k \in Token :
           LET old == born'[k].parent IN
           /\ k \notin Issued /\ row[k] # "live" /\ k \notin stale
           /\ Issued' = Issued \cup {k}
           /\ row' = [row EXCEPT ![k] = "live"]
           /\ \A j \in Issued : born'[j] = born[j]
           /\ born'[k].era = era
           /\ \/ Claimed(t) /\ old = req[t].token /\ born'[k].root = born[old].root
              \/ ~Claimed(t) /\ old = 0 /\ born'[k].root = k
           /\ ~Claimed(t)'
           /\ \A u \in Tab \ {t} : req'[u] = req[u]
           /\ UNCHANGED <<stale, era>>
    BY SaveShape DEF ChainInv, Chains
  <1>2. \A j \in Token : Live(j)' <=> Live(j) \/ j = k
    BY <1>1 DEF Live, ChainInv, Types, TypeOK
  <1>3. \A u \in Tab \ {t} : (Claimed(u)' <=> Claimed(u)) /\ req'[u].token = req[u].token
    BY <1>1 DEF Claimed
  <1>4. Continuing' = {j \in Token : Live(j)'}
                      \cup {req'[u].token : u \in {v \in Tab : Claimed(v)'}}
    BY ContinuingIs DEF Continuing, Claimed
  <1>5. /\ k \in Continuing' /\ Continuing' \subseteq Continuing \cup {k}
        /\ \A j \in Continuing : j \in Continuing' \/ (Claimed(t) /\ j = req[t].token)
    BY <1>1, <1>2, <1>3, <1>4, ContinuingIs
  <1>6. Continuing \subseteq Issued /\ OpenSessions \subseteq Roots /\ Roots \subseteq Issued
        /\ EndedSessions = Roots \ OpenSessions
    BY OpenIssued
  <1>7. EndedSessions' = Roots' \ OpenSessions'
    BY DEF EndedSessions, Roots
  <1>8. Roots' = Roots \cup {born'[k].root}
    BY <1>1 DEF Roots
  <1>9. CASE Claimed(t)
    <2> DEFINE old == req[t].token
    <2>1. old \in Continuing /\ born'[k].root = born[old].root
      BY <1>1, <1>9, ContinuingIs
    <2>2. born'[k].root \in OpenSessions
      BY <2>1 DEF OpenSessions
    <2>3. OpenSessions' \subseteq OpenSessions
      <3>1. \A j \in Continuing' : born'[j].root \in OpenSessions
        BY <1>1, <1>5, <1>6, <2>2 DEF OpenSessions
      <3> QED
        BY <3>1 DEF OpenSessions
    <2>4. OpenSessions \subseteq OpenSessions'
      <3>1. \A j \in Continuing : born[j].root \in OpenSessions'
        BY <1>1, <1>5, <1>6, <2>1 DEF OpenSessions
      <3> QED
        BY <3>1 DEF OpenSessions
    <2>5. Roots' = Roots
      BY <1>6, <1>8, <2>2
    <2> QED
      BY <1>6, <1>7, <2>3, <2>4, <2>5
  <1>10. CASE ~Claimed(t)
    <2>1. born'[k].root = k /\ Continuing' = Continuing \cup {k}
      BY <1>1, <1>5, <1>10
    <2>2. OpenSessions' = OpenSessions \cup {k}
      BY <1>1, <1>6, <2>1 DEF OpenSessions
    <2>3. k \notin Roots
      BY <1>1, <1>6
    <2>4. EndedSessions' = EndedSessions
      BY <1>6, <1>7, <1>8, <2>1, <2>2, <2>3
    <2>5. Family!Open(k)
      BY <1>6, <2>2, <2>3, <2>4 DEF Family!Open
    <2> QED
      BY <2>5 DEF Family!Next
  <1> QED
    BY <1>9, <1>10

LEMMA FamilyStep ==
  ChainInv /\ ChainInv' /\ [Next]_vars => [Family!Next]_<<OpenSessions, EndedSessions>>
  <1> SUFFICES ASSUME ChainInv, ChainInv', [Next]_vars
               PROVE  Family!Next \/ UNCHANGED <<OpenSessions, EndedSessions>>
    OBVIOUS
  <1>1. CASE \E t \in Tab : Save(t)
    BY <1>1, FamilySaves
  <1>2. CASE \E t \in Tab : TakesToken(t)
    BY <1>2, FamilyTakes
  <1>3. CASE TakesAway
    BY <1>3, FamilyShrinks
  <1> QED
    BY <1>1, <1>2, <1>3, Shapes DEF ChainInv

\* The tokens, rows and cookies implement the abstract family of sessions: a
\* session that has ended is never open again.
THEOREM FamilyImplemented == Spec => SessionsEndForGood
  BY FamilyInit, FamilyStep, ChainAlways, PTL DEF Spec, SessionsEndForGood, Family!Spec

-----------------------------------------------------------------------------
(* Sign-outs and logouts.  Each browser is told apart by the tokens it got: *)
(* a step of a tab leaves every other browser, its cookie, its requests and *)
(* its tokens as they are, except for a revocation of the chain.            *)

LiveCookie(b) == cookie[b] # 0 /\ Live(cookie[b])
DeadCookie(b) == cookie[b] # 0 => ~Live(cookie[b])

\* Browser b, and no other, was given token k.
Owned(k, b) == k # 0 => k \in Issued /\ born[k].owner = b

TokensOwned ==
  /\ \A b \in Browser : Owned(cookie[b], b)
  /\ \A t \in Tab : /\ Owned(req[t].token, home[t]) /\ Owned(req[t].new, home[t])
                    /\ req[t].at = "reply" => req[t].new # 0

\* The requests of browser b do not overlap.
OneByOne(b) == \A t, u \in Tab :
  (home[t] = b /\ home[u] = b /\ req[t].at # "idle" /\ req[u].at # "idle") => t = u

Presents(t) ==
  /\ req[t].at \in {"consume", "revokeOne"} => req[t].token = cookie[home[t]]
  /\ req[t].at = "consume" => req[t].op = "refresh"

\* Where a request of an undisturbed browser can be, and what it relies on.
Undisturbed(t) ==
  /\ req[t].at \notin {"missing", "find", "revoke", "refuse"}
  /\ (\/ req[t].at \in {"consume", "revokeOne", "verify", "write"}
      \/ req[t].op = "login" /\ req[t].at \in {"lookup", "save"}) => LiveCookie(home[t])
  /\ req[t].at = "reply" => Live(req[t].new)
  /\ Presents(t)

SignedIn(b) ==
  b \notin excused => /\ OneByOne(b)
                      /\ Busy(b) \/ LiveCookie(b)
                      /\ \A t \in Tab : home[t] = b => Undisturbed(t)

\* A tidy browser loses the token it presents before it gets the next one.
Tidy(t) ==
  /\ req[t].at \in {"lookup", "save", "reply", "find", "revoke", "refuse", "missing", "cleared"}
       => DeadCookie(home[t])
  /\ Presents(t)

OnItsWay(k, b) == \E t \in Tab : home[t] = b /\ req[t].at = "reply" /\ req[t].new = k

LeavesNothing(b) ==
  b \notin untidy =>
    /\ OneByOne(b)
    /\ \A t \in Tab : home[t] = b => Tidy(t)
    /\ b \in left => DeadCookie(b)
    /\ \A k \in Issued : Live(k) /\ born[k].owner = b => cookie[b] = k \/ OnItsWay(k, b)

Browsers == TokensOwned /\ \A b \in Browser : SignedIn(b) /\ LeavesNothing(b)
BrowserInv == Types /\ IssuedKnown /\ Browsers

\* What a step of tab t leaves of the other browsers.
TabStep(t) ==
  /\ home' = home
  /\ \A u \in Tab \ {t} : req'[u] = req[u]
  /\ \A b \in Browser \ {home[t]} :
       /\ cookie'[b] = cookie[b]
       /\ b \in excused => b \in excused'
       /\ b \in untidy => b \in untidy'
       /\ b \in left' => b \in left
  /\ Issued \subseteq Issued'
  /\ \A k \in Issued : born'[k] = born[k]
  /\ \A k \in Issued' \ Issued : born'[k].owner = home[t]
  /\ \A k \in Issued :
       born[k].owner # home[t] => /\ Live(k)' => Live(k)
                                  /\ excused' # Browser => (Live(k) => Live(k)')

LEMMA OtherBrowsers ==
  ASSUME BrowserInv, NEW t \in Tab, TabStep(t), excused' \subseteq Browser,
         NEW b \in Browser, b # home[t]
  PROVE  SignedIn(b)' /\ LeavesNothing(b)'
  <1>1. /\ \A u \in Tab : home[u] = b => u # t /\ req'[u] = req[u]
        /\ home' = home /\ cookie'[b] = cookie[b]
        /\ b \in excused => b \in excused'
        /\ b \in untidy => b \in untidy'
        /\ b \in left' => b \in left
    BY DEF TabStep
  <1>2. /\ SignedIn(b) /\ LeavesNothing(b) /\ Owned(cookie[b], b)
        /\ \A u \in Tab : /\ Owned(req[u].new, home[u])
                          /\ req[u].at = "reply" => req[u].new # 0
    BY DEF BrowserInv, Browsers, TokensOwned
  <1>3. ASSUME NEW k \in Issued, born[k].owner = b
        PROVE  /\ Live(k)' => Live(k)
               /\ b \notin excused' => (Live(k) => Live(k)')
    BY <1>3 DEF TabStep
  <1>4. OneByOne(b) => OneByOne(b)'
    BY <1>1 DEF OneByOne
  <1>5. Busy(b) => Busy(b)'
    BY <1>1 DEF Busy
  <1>6. \A u \in Tab : home[u] = b => (Presents(u) => Presents(u)')
    BY <1>1 DEF Presents
  <1>7. b \notin excused' => (LiveCookie(b) => LiveCookie(b)')
    BY <1>1, <1>2, <1>3 DEF LiveCookie, Owned
  <1>8. DeadCookie(b) => DeadCookie(b)'
    BY <1>1, <1>2, <1>3 DEF DeadCookie, Owned
  <1>9. SignedIn(b)'
    <2> SUFFICES ASSUME b \notin excused' PROVE (OneByOne(b) /\ (Busy(b) \/ LiveCookie(b))
                          /\ \A u \in Tab : home[u] = b => Undisturbed(u))'
      BY DEF SignedIn
    <2>1. OneByOne(b) /\ (Busy(b) \/ LiveCookie(b)) /\ \A u \in Tab : home[u] = b => Undisturbed(u)
      BY <1>1, <1>2 DEF SignedIn
    <2>2. ASSUME NEW u \in Tab, home[u] = b PROVE Undisturbed(u)'
      <3>1. Undisturbed(u) /\ req'[u] = req[u] /\ home'[u] = b
        BY <1>1, <2>1, <2>2
      <3>2. ASSUME req[u].at = "reply"
            PROVE  row'[req[u].new] = "live" /\ req[u].new \notin stale'
        <4>1. PICK k \in Issued : k = req[u].new /\ born[k].owner = b /\ Live(k)
          BY <1>2, <2>2, <3>1, <3>2 DEF Owned, Undisturbed
        <4>2. Live(k)'
          BY <1>3, <4>1
        <4> QED
          BY <4>1, <4>2 DEF Live
      <3>3. (req[u].at = "reply" => Live(req[u].new))'
        BY <3>1, <3>2 DEF Live
      <3>4. Presents(u)'
        BY <1>6, <2>2, <3>1 DEF Undisturbed
      <3>5. LiveCookie(b) => LiveCookie(home[u])'
        BY <1>7, <3>1 DEF LiveCookie
      <3> QED
        BY <2>2, <3>1, <3>3, <3>4, <3>5 DEF Undisturbed
    <2> QED
      BY <1>1, <1>4, <1>5, <1>7, <2>1, <2>2
  <1>10. LeavesNothing(b)'
    <2> SUFFICES ASSUME b \notin untidy'
                 PROVE  (/\ OneByOne(b) /\ \A u \in Tab : home[u] = b => Tidy(u)
                         /\ b \in left => DeadCookie(b)
                         /\ \A k \in Issued : Live(k) /\ born[k].owner = b
                                                => cookie[b] = k \/ OnItsWay(k, b))'
      BY DEF LeavesNothing
    <2>1. /\ OneByOne(b) /\ \A u \in Tab : home[u] = b => Tidy(u)
          /\ b \in left => DeadCookie(b)
          /\ \A k \in Issued : Live(k) /\ born[k].owner = b => cookie[b] = k \/ OnItsWay(k, b)
      BY <1>1, <1>2 DEF LeavesNothing
    <2>2. ASSUME NEW u \in Tab, home[u] = b PROVE Tidy(u)'
      BY <1>1, <1>6, <1>8, <2>1, <2>2 DEF Tidy
    <2>3. ASSUME NEW k \in Issued', Live(k)', born'[k].owner = b
          PROVE  cookie'[b] = k \/ OnItsWay(k, b)'
      <3>1. k \in Issued /\ born[k].owner = b
        BY <2>3 DEF TabStep
      <3>2. cookie[b] = k \/ OnItsWay(k, b)
        BY <1>3, <2>1, <2>3, <3>1
      <3> QED
        BY <1>1, <3>2 DEF OnItsWay
    <2>4. (b \in left)' => DeadCookie(b)'
      BY <1>1, <1>8, <2>1
    <2> QED
      BY <1>1, <1>4, <2>1, <2>2, <2>3, <2>4
  <1> QED
    BY <1>9, <1>10

\* Tokens stay with their browser when a tab t at most takes its cookie for
\* its token, the token saved for it for its cookie, or drops either.
LEMMA OwnedKept ==
  ASSUME BrowserInv, NEW t \in Tab, TabStep(t),
         req'[t].token \in {req[t].token, cookie[home[t]], 0},
         req'[t].new \in {req[t].new, 0} \/ (req'[t].new \in Issued' \ Issued),
         req'[t].at = "reply" => req'[t].new # 0,
         cookie'[home[t]] \in {cookie[home[t]], req[t].new, 0}
  PROVE  TokensOwned'
  <1>1. \A k \in Issued : k \in Issued' /\ born'[k].owner = born[k].owner
    BY DEF TabStep
  <1>2. /\ \A b \in Browser : cookie[b] # 0 => cookie[b] \in Issued /\ born[cookie[b]].owner = b
        /\ \A u \in Tab :
             /\ req[u].token # 0 => req[u].token \in Issued /\ born[req[u].token].owner = home[u]
             /\ req[u].new # 0 => req[u].new \in Issued /\ born[req[u].new].owner = home[u]
             /\ req[u].at = "reply" => req[u].new # 0
    BY DEF BrowserInv, Browsers, TokensOwned, Owned
  <1>3. home[t] \in Browser /\ home' = home
    BY DEF BrowserInv, Types, TypeOK, TabStep
  <1>4. ASSUME NEW b \in Browser
        PROVE  cookie'[b] # 0 => cookie'[b] \in Issued' /\ born'[cookie'[b]].owner = b
    <2>1. CASE b # home[t]
      <3>1. cookie'[b] = cookie[b]
        BY <2>1 DEF TabStep
      <3> QED
        BY <1>1, <1>2, <3>1
    <2>2. CASE b = home[t]
      BY <1>1, <1>2, <2>2
    <2> QED
      BY <2>1, <2>2
  <1>5. ASSUME NEW u \in Tab
        PROVE  /\ req'[u].token # 0 => req'[u].token \in Issued' /\ born'[req'[u].token].owner = home[u]
               /\ req'[u].new # 0 => req'[u].new \in Issued' /\ born'[req'[u].new].owner = home[u]
               /\ req'[u].at = "reply" => req'[u].new # 0
    <2>1. CASE u # t
      <3>1. req'[u] = req[u]
        BY <2>1 DEF TabStep
      <3> QED
        BY <1>1, <1>2, <3>1
    <2>2. CASE u = t
      <3>1. req'[t].token # 0 => req'[t].token \in Issued' /\ born'[req'[t].token].owner = home[t]
        BY <1>1, <1>2, <1>3
      <3>2. req'[t].new # 0 => req'[t].new \in Issued' /\ born'[req'[t].new].owner = home[t]
        BY <1>1, <1>2, <1>3 DEF TabStep
      <3> QED
        BY <2>2, <3>1, <3>2
    <2> QED
      BY <2>1, <2>2
  <1> QED
    BY <1>3, <1>4, <1>5 DEF TokensOwned, Owned

\* A step of tab t has its own browser to account for.
LEMMA OwnBrowser ==
  ASSUME BrowserInv, NEW t \in Tab, TabStep(t), TokensOwned', excused' \subseteq Browser,
         SignedIn(home[t])', LeavesNothing(home[t])'
  PROVE  Browsers'
  <1>1. \A b \in Browser : b # home[t] => SignedIn(b)' /\ LeavesNothing(b)'
    BY OtherBrowsers
  <1>2. ASSUME NEW b \in Browser PROVE SignedIn(b)' /\ LeavesNothing(b)'
    <2>1. CASE b # home[t]
      BY <1>1, <2>1
    <2>2. CASE b = home[t]
      <3>1. home'[t] = b
        BY <2>2 DEF TabStep
      <3> QED
        BY <2>2, <3>1 DEF TabStep, SignedIn, LeavesNothing, OneByOne, Busy, LiveCookie, DeadCookie,
              Undisturbed, Presents, Tidy, OnItsWay
    <2> QED
      BY <2>1, <2>2
  <1> QED
    BY <1>2 DEF Browsers

\* A step that leaves the tokens alone.
LEMMA PlainTabStep ==
  ASSUME BrowserInv, NEW t \in Tab, UNCHANGED <<home, row, stale, born>>,
         \A u \in Tab \ {t} : req'[u] = req[u],
         \A b \in Browser \ {home[t]} : cookie'[b] = cookie[b],
         \A b \in Browser \ {home[t]} :
            /\ b \in excused => b \in excused'
            /\ b \in untidy => b \in untidy'
            /\ b \in left' => b \in left
  PROVE  TabStep(t) /\ Issued' = Issued
  <1>1. Issued' = Issued
    BY DEF Issued
  <1>2. \A k \in Issued : Live(k)' <=> Live(k)
    BY DEF Live
  <1> QED
    BY <1>1, <1>2 DEF TabStep

\* The browser of tab t before a step of a request of t ...
LEMMA QuietBefore ==
  ASSUME BrowserInv, NEW t \in Tab
  PROVE  /\ home[t] \notin excused /\ ~Busy(home[t]) => LiveCookie(home[t])
         /\ home[t] \notin excused /\ req[t].at # "idle" =>
              /\ \A u \in Tab \ {t} : home[u] = home[t] => req[u].at = "idle"
              /\ Undisturbed(t)
         /\ home[t] \notin untidy =>
              /\ home[t] \in left => DeadCookie(home[t])
              /\ \A k \in Issued : Live(k) /\ born[k].owner = home[t]
                                     => cookie[home[t]] = k \/ OnItsWay(k, home[t])
         /\ home[t] \notin untidy /\ req[t].at # "idle" =>
              /\ \A u \in Tab \ {t} : home[u] = home[t] => req[u].at = "idle"
              /\ Tidy(t)
              /\ \A k \in Issued :
                   Live(k) /\ born[k].owner = home[t]
                     => cookie[home[t]] = k \/ (req[t].at = "reply" /\ req[t].new = k)
  <1>1. home[t] \in Browser
    BY DEF BrowserInv, Types, TypeOK
  <1>2. SignedIn(home[t]) /\ LeavesNothing(home[t])
    BY <1>1 DEF BrowserInv, Browsers
  <1>3. OneByOne(home[t]) /\ req[t].at # "idle"
          => \A u \in Tab \ {t} : home[u] = home[t] => req[u].at = "idle"
    BY DEF OneByOne
  <1>4. home[t] \notin excused /\ ~Busy(home[t]) => LiveCookie(home[t])
    BY <1>2 DEF SignedIn
  <1>5. home[t] \notin excused /\ req[t].at # "idle" =>
          /\ \A u \in Tab \ {t} : home[u] = home[t] => req[u].at = "idle"
          /\ Undisturbed(t)
    BY <1>2, <1>3 DEF SignedIn
  <1>6. home[t] \notin untidy =>
          /\ home[t] \in left => DeadCookie(home[t])
          /\ \A k \in Issued : Live(k) /\ born[k].owner = home[t]
                                 => cookie[home[t]] = k \/ OnItsWay(k, home[t])
          /\ Tidy(t) /\ OneByOne(home[t])
    BY <1>2 DEF LeavesNothing
  <1>7. ASSUME home[t] \notin untidy, req[t].at # "idle"
        PROVE  /\ \A u \in Tab \ {t} : home[u] = home[t] => req[u].at = "idle"
               /\ Tidy(t)
               /\ \A k \in Issued :
                    Live(k) /\ born[k].owner = home[t]
                      => cookie[home[t]] = k \/ (req[t].at = "reply" /\ req[t].new = k)
    <2>1. \A u \in Tab \ {t} : home[u] = home[t] => req[u].at = "idle"
      BY <1>3, <1>6, <1>7
    <2>2. \A k : OnItsWay(k, home[t]) => req[t].at = "reply" /\ req[t].new = k
      BY <2>1 DEF OnItsWay
    <2> QED
      BY <1>6, <1>7, <2>1, <2>2
  <1> QED
    BY <1>4, <1>5, <1>6, <1>7

\* ... and after it.
LEMMA SignedAfter ==
  ASSUME NEW t \in Tab, home' = home,
         home[t] \notin excused' =>
           /\ \A u \in Tab \ {t} : home[u] = home[t] => req'[u].at = "idle"
           /\ Undisturbed(t)'
           /\ req'[t].at # "idle" \/ LiveCookie(home[t])'
  PROVE  SignedIn(home[t])'
  <1> SUFFICES ASSUME home[t] \notin excused'
               PROVE  (/\ OneByOne(home[t]) /\ (Busy(home[t]) \/ LiveCookie(home[t]))
                       /\ \A u \in Tab : home[u] = home[t] => Undisturbed(u))'
    BY DEF SignedIn
  <1>1. OneByOne(home[t])'
    BY DEF OneByOne
  <1>2. (Busy(home[t]) \/ LiveCookie(home[t]))'
    BY DEF Busy
  <1>3. ASSUME NEW u \in Tab, home'[u] = home'[t] PROVE Undisturbed(u)'
    <2>1. CASE u = t
      BY <2>1
    <2>2. CASE u # t
      BY <1>3, <2>2 DEF Undisturbed, Presents
    <2> QED
      BY <2>1, <2>2
  <1> QED
    BY <1>1, <1>2, <1>3

LEMMA NothingAfter ==
  ASSUME NEW t \in Tab, home' = home,
         home[t] \notin untidy' =>
           /\ \A u \in Tab \ {t} : home[u] = home[t] => req'[u].at = "idle"
           /\ Tidy(t)'
           /\ home[t] \in left' => DeadCookie(home[t])'
           /\ \A k \in Issued' :
                Live(k)' /\ born'[k].owner = home[t]
                  => cookie'[home[t]] = k \/ (req'[t].at = "reply" /\ req'[t].new = k)
  PROVE  LeavesNothing(home[t])'
  <1> SUFFICES ASSUME home[t] \notin untidy'
               PROVE  (/\ OneByOne(home[t])
                       /\ \A u \in Tab : home[u] = home[t] => Tidy(u)
                       /\ home[t] \in left => DeadCookie(home[t])
                       /\ \A k \in Issued : Live(k) /\ born[k].owner = home[t]
                                              => cookie[home[t]] = k \/ OnItsWay(k, home[t]))'
    BY DEF LeavesNothing
  <1>1. OneByOne(home[t])'
    BY DEF OneByOne
  <1>2. ASSUME NEW u \in Tab, home'[u] = home'[t] PROVE Tidy(u)'
    <2>1. CASE u = t
      BY <2>1
    <2>2. CASE u # t
      BY <1>2, <2>2 DEF Tidy, Presents
    <2> QED
      BY <2>1, <2>2
  <1>3. ASSUME NEW k \in Issued', Live(k)', born'[k].owner = home'[t]
        PROVE  cookie'[home'[t]] = k \/ OnItsWay(k, home[t])'
    BY <1>3 DEF OnItsWay
  <1> QED
    BY <1>1, <1>2, <1>3

LEMMA SendBrowsers ==
  ASSUME BrowserInv, NEW t \in Tab, NEW o, NEW a,
         a \in {"missing", "consume", "lookup", "cleared", "revokeOne", "verify"},
         a \in {"missing", "cleared"} => cookie[home[t]] = 0,
         a = "missing" => o = "refresh",
         a = "consume" => o = "refresh",
         a = "lookup" <=> o = "login",
         Send(t, o, a), UNCHANGED <<home, row, stale, cookie, born>>, Types'
  PROVE  Browsers'
  <1> DEFINE b == home[t]
  <1>1. /\ req[t].at = "idle" /\ left' = left
        /\ excused' = IF Busy(b) THEN excused \cup {b} ELSE excused
        /\ untidy' = IF Busy(b) \/ (o = "login" /\ cookie[b] # 0) THEN untidy \cup {b} ELSE untidy
    BY DEF Send
  <1>2. /\ req'[t].at = a /\ req'[t].op = o /\ req'[t].token = cookie[b] /\ req'[t].new = 0
        /\ \A u \in Tab \ {t} : req'[u] = req[u]
    BY DEF Send, BrowserInv, Types, TypeOK
  <1>3. b \in Browser /\ excused' \subseteq Browser
    BY DEF BrowserInv, Types, TypeOK
  <1>4. TabStep(t) /\ Issued' = Issued
    BY <1>1, <1>2, PlainTabStep
  <1>5. TokensOwned'
    BY <1>2, <1>4, OwnedKept
  <1>6. ~Busy(b) => \A u \in Tab \ {t} : home[u] = b => req'[u].at = "idle"
    BY <1>2 DEF Busy
  <1>7. SignedIn(home[t])'
    <2>1. ASSUME b \notin excused'
          PROVE  /\ \A u \in Tab \ {t} : home[u] = b => req'[u].at = "idle"
                 /\ Undisturbed(t)'
                 /\ req'[t].at # "idle"
      <3>1. ~Busy(b) /\ b \notin excused
        BY <1>1, <2>1
      <3>2. cookie[b] # 0 /\ Live(cookie[b])
        BY <3>1, QuietBefore DEF LiveCookie
      <3>3. LiveCookie(home[t])'
        BY <3>2 DEF LiveCookie, Live
      <3>4. Presents(t)'
        BY <1>2 DEF Presents
      <3>5. Undisturbed(t)'
        BY <1>2, <3>2, <3>3, <3>4 DEF Undisturbed
      <3> QED
        BY <1>2, <1>6, <3>1, <3>5
    <2> QED
      BY <2>1, SignedAfter
  <1>8. LeavesNothing(home[t])'
    <2>1. ASSUME b \notin untidy'
          PROVE  /\ \A u \in Tab \ {t} : home[u] = b => req'[u].at = "idle"
                 /\ Tidy(t)'
                 /\ b \in left' => DeadCookie(home[t])'
                 /\ \A k \in Issued' : Live(k)' /\ born'[k].owner = b => cookie'[b] = k
      <3>1. ~Busy(b) /\ b \notin untidy /\ (o = "login" => cookie[b] = 0)
        BY <1>1, <2>1
      <3>2. /\ b \in left => DeadCookie(b)
            /\ \A k \in Issued : Live(k) /\ born[k].owner = b => cookie[b] = k
        <4>1. \A k : ~OnItsWay(k, b)
          BY <3>1 DEF OnItsWay, Busy
        <4> QED
          BY <3>1, <4>1, QuietBefore
      <3>3. b \in left' => DeadCookie(home[t])'
        BY <1>1, <3>2 DEF DeadCookie, Live
      <3>4. Tidy(t)'
        BY <1>2, <3>1 DEF Tidy, Presents, DeadCookie
      <3>5. \A k \in Issued' : Live(k)' /\ born'[k].owner = b => cookie'[b] = k
        BY <1>4, <3>2 DEF Live
      <3> QED
        BY <1>6, <3>1, <3>3, <3>4, <3>5
    <2> QED
      BY <2>1, NothingAfter
  <1> QED
    BY <1>3, <1>4, <1>5, <1>7, <1>8, OwnBrowser

\* A request goes on, and nothing else happens.
LEMMA MoveBrowsers ==
  ASSUME BrowserInv, NEW t \in Tab, Types', req[t].at \notin {"idle", "reply"},
         \A u \in Tab \ {t} : req'[u] = req[u],
         UNCHANGED <<home, row, stale, cookie, born, excused, untidy, left>>,
         req'[t].token \in {req[t].token, cookie[home[t]], 0},
         req'[t].new \in {req[t].new, 0}, req'[t].at # "reply",
         home[t] \notin excused /\ Undisturbed(t)
           => Undisturbed(t)' /\ (req'[t].at # "idle" \/ LiveCookie(home[t])),
         home[t] \notin untidy /\ Tidy(t) => Tidy(t)'
  PROVE  Browsers'
  <1> DEFINE b == home[t]
  <1>1. TabStep(t) /\ Issued' = Issued
    BY PlainTabStep
  <1>2. TokensOwned' /\ excused' \subseteq Browser
    BY <1>1, OwnedKept DEF BrowserInv, Types, TypeOK
  <1>3. SignedIn(home[t])'
    <2>1. LiveCookie(home[t]) => LiveCookie(home[t])'
      BY DEF LiveCookie, Live
    <2> QED
      BY <2>1, QuietBefore, SignedAfter
  <1>4. LeavesNothing(home[t])'
    <2>1. DeadCookie(home[t]) => DeadCookie(home[t])'
      BY DEF DeadCookie, Live
    <2>2. ASSUME b \notin untidy
          PROVE  \A k \in Issued' : Live(k)' /\ born'[k].owner = b => cookie'[b] = k
      <3>1. \A k \in Issued : Live(k) /\ born[k].owner = b => cookie[b] = k
        BY <2>2, QuietBefore
      <3> QED
        BY <1>1, <3>1 DEF Live
    <2> QED
      BY <2>1, <2>2, QuietBefore, NothingAfter
  <1> QED
    BY <1>1, <1>2, <1>3, <1>4, OwnBrowser

LEMMA GoBrowsers ==
  ASSUME BrowserInv, NEW t \in Tab, Types', req[t].at \notin {"idle", "reply"},
         UNCHANGED <<home, row, stale, cookie, born, excused, untidy, left>>,
         \/ req[t].at = "lookup" /\ Go(t, "save")
         \/ req[t].at = "lookup" /\ req[t].op = "login" /\ Done(t)
         \/ req[t].at = "find" /\ (Go(t, "refuse") \/ Go(t, "revoke"))
         \/ req[t].at = "verify" /\ Go(t, "write")
         \/ req[t].at = "write" /\ Done(t)
  PROVE  Browsers'
  <1>1. req \in [Tab -> Requests]
    BY DEF BrowserInv, Types, TypeOK
  <1>2. /\ \A u \in Tab \ {t} : req'[u] = req[u]
        /\ req'[t].token \in {req[t].token, cookie[home[t]], 0}
        /\ req'[t].new \in {req[t].new, 0} /\ req'[t].at # "reply"
    BY <1>1 DEF Go, Done, Idle, Requests
  <1>3. /\ LiveCookie(home[t]) => LiveCookie(home[t])'
        /\ DeadCookie(home[t]) => DeadCookie(home[t])'
    BY DEF LiveCookie, DeadCookie, Live
  <1>4. /\ req'[t].at \in {"save", "idle", "refuse", "revoke", "write"}
        /\ req'[t].at = "save" => req[t].at = "lookup" /\ req'[t].op = req[t].op
        /\ req'[t].at \in {"refuse", "revoke"} => req[t].at = "find"
        /\ req'[t].at = "write" => req[t].at = "verify"
        /\ req'[t].at = "idle" => (req[t].at = "lookup" /\ req[t].op = "login") \/ req[t].at = "write"
    BY <1>1 DEF Go, Done, Idle, Requests
  <1>5. Undisturbed(t) => Undisturbed(t)' /\ (req'[t].at # "idle" \/ LiveCookie(home[t]))
    BY <1>3, <1>4 DEF Undisturbed, Presents
  <1>6. Tidy(t) => Tidy(t)'
    BY <1>3, <1>4 DEF Tidy, Presents
  <1> QED
    BY <1>2, <1>5, <1>6, MoveBrowsers

\* A wrong current password makes the tab refresh.
LEMMA RetryBrowsers ==
  ASSUME BrowserInv, NEW t \in Tab, Types', req[t].at = "verify",
         UNCHANGED <<home, row, stale, cookie, born, excused, untidy, left>>,
         req' = [req EXCEPT ![t] =
             [op |-> "refresh", token |-> cookie[home[t]], new |-> 0,
              at |-> IF cookie[home[t]] = 0 THEN "missing" ELSE "consume"]]
  PROVE  Browsers'
  <1>1. /\ req'[t].op = "refresh" /\ req'[t].token = cookie[home[t]] /\ req'[t].new = 0
        /\ req'[t].at = IF cookie[home[t]] = 0 THEN "missing" ELSE "consume"
        /\ \A u \in Tab \ {t} : req'[u] = req[u]
    BY DEF BrowserInv, Types, TypeOK
  <1>2. LiveCookie(home[t]) => LiveCookie(home[t])'
    BY DEF LiveCookie, Live
  <1>3. Undisturbed(t) => Undisturbed(t)' /\ req'[t].at # "idle"
    <2> SUFFICES ASSUME Undisturbed(t) PROVE Undisturbed(t)' /\ req'[t].at # "idle"
      OBVIOUS
    <2>1. LiveCookie(home[t])
      BY DEF Undisturbed
    <2>2. req'[t].at = "consume"
      BY <1>1, <2>1 DEF LiveCookie
    <2> QED
      BY <1>1, <1>2, <2>1, <2>2 DEF Undisturbed, Presents
  <1>4. Tidy(t)'
    BY <1>1 DEF Tidy, Presents, DeadCookie
  <1> QED
    BY <1>1, <1>3, <1>4, MoveBrowsers

\* The token of a request is used up, or was already.
LEMMA TakesBrowsers ==
  ASSUME BrowserInv, NEW t \in Tab, Types',
         \/ Consume(t)
         \/ RevokeCookie(t)
  PROVE  Browsers'
  <1> DEFINE b == home[t]
  <1>0. PICK n : n = req[t].token
    OBVIOUS
  <1>1. /\ req[t].at \in {"consume", "revokeOne"}
        /\ UNCHANGED <<home, stale, cookie, born, excused, untidy, left>>
    BY DEF Consume, RevokeCookie, given, history
  <1>2. /\ \A u \in Tab \ {t} : req'[u] = req[u]
        /\ req'[t].token = n /\ req'[t].new = req[t].new
        /\ req'[t].at = IF req[t].at = "revokeOne" THEN "cleared"
                        ELSE IF Live(n) THEN "lookup" ELSE "find"
        /\ req'[t].op = req[t].op
    BY <1>0 DEF BrowserInv, Types, TypeOK, Requests, Consume, RevokeCookie, Go
  <1>3. row \in [Token -> {"none", "live", "used"}]
    BY DEF BrowserInv, Types, TypeOK
  <1>4. /\ \A k \in Token \ {n} : row'[k] = row[k]
        /\ n \in Token => ~Live(n)'
    BY <1>0, <1>1, <1>3 DEF Consume, RevokeCookie, ConsumeRefresh, RevokeOne, Live
  <1>5. Issued' = Issued /\ Issued \subseteq Token
    BY <1>1 DEF Issued
  <1>6. n # 0 => n \in Issued /\ born[n].owner = b
    BY <1>0 DEF BrowserInv, Browsers, TokensOwned, Owned
  <1>7. ASSUME NEW k \in Issued
        PROVE  (Live(k)' => Live(k)) /\ (born[k].owner # b => (Live(k) => Live(k)'))
    <2>1. CASE k = n
      BY <1>4, <1>5, <1>6, <2>1 DEF Token
    <2>2. CASE k # n
      BY <1>1, <1>4, <1>5, <2>2 DEF Live
    <2> QED
      BY <2>1, <2>2
  <1>8. TabStep(t)
    BY <1>1, <1>2, <1>5, <1>7 DEF TabStep
  <1>9. TokensOwned' /\ excused' \subseteq Browser
    BY <1>0, <1>1, <1>2, <1>8, OwnedKept DEF BrowserInv, Types, TypeOK
  <1>10. cookie[b] = n => DeadCookie(home[t])'
    BY <1>1, <1>4, <1>5, <1>6 DEF DeadCookie, Live
  <1>11. DeadCookie(home[t]) => DeadCookie(home[t])'
    <2>1. cookie[b] # 0 => cookie[b] \in Issued
      BY DEF BrowserInv, Browsers, TokensOwned, Owned, Types, TypeOK
    <2> QED
      BY <1>1, <1>7, <2>1 DEF DeadCookie, Live
  <1>12. SignedIn(home[t])'
    <2>1. ASSUME b \notin excused
          PROVE  /\ \A u \in Tab \ {t} : home[u] = b => req'[u].at = "idle"
                 /\ Undisturbed(t)'
                 /\ req'[t].at # "idle"
      <3>1. /\ \A u \in Tab \ {t} : home[u] = b => req[u].at = "idle"
            /\ Undisturbed(t)
        BY <1>1, <2>1, QuietBefore
      <3>2. /\ req[t].at = "consume" => Live(n) /\ req[t].op = "refresh"
        BY <1>0, <1>1, <3>1 DEF Undisturbed, Presents, LiveCookie
      <3> QED
        BY <1>1, <1>2, <3>1, <3>2 DEF Undisturbed, Presents
    <2> QED
      BY <1>1, <2>1, SignedAfter
  <1>13. LeavesNothing(home[t])'
    <2>1. ASSUME b \notin untidy
          PROVE  /\ \A u \in Tab \ {t} : home[u] = b => req'[u].at = "idle"
                 /\ Tidy(t)'
                 /\ b \in left => DeadCookie(home[t])'
                 /\ \A k \in Issued' : Live(k)' /\ born'[k].owner = b => cookie'[b] = k
      <3>1. /\ \A u \in Tab \ {t} : home[u] = b => req[u].at = "idle"
            /\ Tidy(t)
            /\ \A k \in Issued : Live(k) /\ born[k].owner = b => cookie[b] = k
        BY <1>1, <2>1, QuietBefore
      <3>2. DeadCookie(home[t])'
        <4>1. req[t].token = cookie[home[t]]
          BY <1>1, <3>1 DEF Tidy, Presents
        <4>2. cookie[b] = n
          BY <1>0, <4>1
        <4> QED
          BY <1>10, <4>2
      <3>3. Tidy(t)'
        BY <1>1, <1>2, <3>2 DEF Tidy, Presents
      <3>4. \A k \in Issued' : Live(k)' /\ born'[k].owner = b => cookie'[b] = k
        BY <1>1, <1>5, <1>7, <3>1
      <3> QED
        BY <1>2, <3>1, <3>2, <3>3, <3>4
    <2> QED
      BY <1>1, <2>1, NothingAfter
  <1> QED
    BY <1>8, <1>9, <1>12, <1>13, OwnBrowser

\* A request gets its token saved.
LEMMA SaveBrowsers ==
  ASSUME BrowserInv, NEW t \in Tab, Types', Save(t)
  PROVE  Browsers'
  <1> DEFINE b == home[t]
  <1>1. PICK k \in Token :
          SaveRefresh(t, k) /\ req' = [req EXCEPT ![t].at = "reply", ![t].new = k]
    BY DEF Save
  <1>2. /\ req[t].at = "save" /\ row[k] = "none" /\ k \notin Issued
        /\ row' = [row EXCEPT ![k] = "live"]
        /\ UNCHANGED <<home, stale, cookie, excused, untidy, left>>
    BY <1>1 DEF Save, SaveRefresh, given
  <1>3. /\ \A u \in Tab \ {t} : req'[u] = req[u]
        /\ req'[t].token = req[t].token /\ req'[t].new = k
        /\ req'[t].at = "reply" /\ req'[t].op = req[t].op
    BY <1>1 DEF BrowserInv, Types, TypeOK, Requests
  <1>4. /\ born'[k].owner = b /\ born'[k].root # 0
        /\ \A j \in Token \ {k} : born'[j] = born[j]
    <2> DEFINE old == IF req[t].op = "refresh" THEN req[t].token ELSE 0
               root == IF old = 0 THEN k ELSE born[old].root
    <2>1. old # 0 => old \in Issued
      BY DEF BrowserInv, Browsers, TokensOwned, Owned
    <2>2. root # 0
      BY <2>1 DEF Issued, Token
    <2>3. born' = [born EXCEPT ![k] = [parent |-> old, root |-> root, owner |-> home[t], era |-> era]]
      BY <1>1 DEF SaveRefresh
    <2> HIDE DEF root
    <2> QED
      BY <2>2, <2>3 DEF BrowserInv, Types, TypeOK
  <1>5. Issued' = Issued \cup {k} /\ 0 \notin Issued /\ k # 0
    BY <1>4 DEF Issued, Token
  <1>6. row \in [Token -> {"none", "live", "used"}] /\ Issued \subseteq Token
    BY DEF BrowserInv, Types, TypeOK, Issued
  <1>7. \A j \in Issued : born'[j] = born[j] /\ row'[j] = row[j]
    BY <1>2, <1>4, <1>6
  <1>8. k \notin stale
    BY <1>2 DEF BrowserInv, IssuedKnown
  <1>9. TabStep(t)
    BY <1>2, <1>3, <1>4, <1>5, <1>7 DEF TabStep, Live
  <1>10. TokensOwned' /\ excused' \subseteq Browser
    BY <1>2, <1>3, <1>5, <1>9, OwnedKept DEF BrowserInv, Types, TypeOK
  <1>11. DeadCookie(home[t]) => DeadCookie(home[t])'
    <2>1. cookie[b] # 0 => cookie[b] \in Issued
      BY DEF BrowserInv, Browsers, TokensOwned, Owned, Types, TypeOK
    <2> QED
      BY <1>2, <1>7, <2>1 DEF DeadCookie, Live
  <1>12. SignedIn(home[t])'
    <2>1. Live(req[t].new)'
      BY <1>2, <1>3, <1>6, <1>8 DEF Live
    <2>2. Undisturbed(t)'
      BY <1>3, <2>1 DEF Undisturbed, Presents
    <2> QED
      BY <1>2, <1>3, <2>2, QuietBefore, SignedAfter
  <1>13. LeavesNothing(home[t])'
    <2>1. ASSUME b \notin untidy
          PROVE  /\ \A u \in Tab \ {t} : home[u] = b => req'[u].at = "idle"
                 /\ Tidy(t)'
                 /\ b \in left => DeadCookie(home[t])'
                 /\ \A j \in Issued' :
                      Live(j)' /\ born'[j].owner = b
                        => cookie'[b] = j \/ (req'[t].at = "reply" /\ req'[t].new = j)
      <3>1. /\ \A u \in Tab \ {t} : home[u] = b => req[u].at = "idle"
            /\ Tidy(t)
            /\ \A j \in Issued : Live(j) /\ born[j].owner = b => cookie[b] = j
        BY <1>2, <2>1, QuietBefore
      <3>2. DeadCookie(home[t])'
        BY <1>2, <1>11, <3>1 DEF Tidy
      <3>3. Tidy(t)'
        BY <1>3, <3>2 DEF Tidy, Presents
      <3>4. ASSUME NEW j \in Issued', Live(j)', born'[j].owner = b
            PROVE  cookie'[b] = j \/ (req'[t].at = "reply" /\ req'[t].new = j)
        BY <1>2, <1>3, <1>5, <1>7, <3>1, <3>4 DEF Live
      <3> QED
        BY <1>3, <3>1, <3>2, <3>3, <3>4
    <2> QED
      BY <1>2, <2>1, NothingAfter
  <1> QED
    BY <1>9, <1>10, <1>12, <1>13, OwnBrowser

\* The answer to a login or a refresh carries the new cookie.
LEMMA ReplyBrowsers ==
  ASSUME BrowserInv, NEW t \in Tab, Types', Reply(t)
  PROVE  Browsers'
  <1> DEFINE b == home[t]
             others == \E u \in Tab \ {t} : home[u] = b /\ req[u].at # "idle"
  <1>1. /\ req[t].at = "reply" /\ left' = left \ {b} /\ Done(t)
        /\ UNCHANGED <<home, row, stale, born, untidy>>
        /\ cookie' = [cookie EXCEPT ![b] = req[t].new]
        /\ excused' = IF req[t].op = "login" /\ ~others /\ Live(req[t].new)
                      THEN excused \ {b} ELSE excused
    BY DEF Reply, given
  <1>2. /\ \A u \in Tab \ {t} : req'[u] = req[u]
        /\ req'[t] = Idle
    BY <1>1 DEF BrowserInv, Types, TypeOK, Done
  <1>3. /\ b \in Browser /\ cookie'[b] = req[t].new
        /\ \A c \in Browser \ {b} : cookie'[c] = cookie[c]
    BY <1>1 DEF BrowserInv, Types, TypeOK
  <1>4. TabStep(t) /\ Issued' = Issued
    BY <1>1, <1>2, <1>3, PlainTabStep
  <1>5. TokensOwned' /\ excused' \subseteq Browser
    BY <1>1, <1>2, <1>3, <1>4, OwnedKept DEF BrowserInv, Types, TypeOK, Idle
  <1>6. req[t].new # 0
    BY <1>1 DEF BrowserInv, Browsers, TokensOwned
  <1>7. Undisturbed(t)' /\ Tidy(t)'
    BY <1>2 DEF Undisturbed, Tidy, Presents, Idle
  <1>8. SignedIn(home[t])'
    <2>1. ASSUME b \notin excused'
          PROVE  /\ \A u \in Tab \ {t} : home[u] = b => req'[u].at = "idle"
                 /\ LiveCookie(home[t])'
      <3>1. CASE b \notin excused
        <4>1. Live(req[t].new) /\ \A u \in Tab \ {t} : home[u] = b => req[u].at = "idle"
          BY <1>1, <3>1, QuietBefore DEF Undisturbed
        <4> QED
          BY <1>1, <1>2, <1>3, <1>6, <4>1 DEF LiveCookie, Live
      <3>2. CASE b \in excused
        <4>1. ~others /\ Live(req[t].new)
          BY <1>1, <2>1, <3>2
        <4> QED
          BY <1>1, <1>2, <1>3, <1>6, <4>1 DEF LiveCookie, Live
      <3> QED
        BY <3>1, <3>2
    <2> QED
      BY <1>1, <1>7, <2>1, SignedAfter
  <1>9. LeavesNothing(home[t])'
    <2>1. ASSUME b \notin untidy
          PROVE  /\ \A u \in Tab \ {t} : home[u] = b => req'[u].at = "idle"
                 /\ \A k \in Issued' : Live(k)' /\ born'[k].owner = b => cookie'[b] = k
      <3>1. /\ \A u \in Tab \ {t} : home[u] = b => req[u].at = "idle"
            /\ Tidy(t)
            /\ \A k \in Issued : Live(k) /\ born[k].owner = b => cookie[b] = k \/ req[t].new = k
        BY <1>1, <2>1, QuietBefore
      <3>2. ~ (cookie[b] # 0 /\ Live(cookie[b])) /\ 0 \notin Issued
        BY <1>1, <3>1 DEF Tidy, DeadCookie, Issued, Token
      <3>3. \A k \in Issued : Live(k)' => Live(k)
        BY <1>1 DEF Live
      <3> QED
        BY <1>1, <1>2, <1>3, <1>4, <3>1, <3>2, <3>3
    <2>2. b \notin left'
      BY <1>1
    <2> QED
      BY <1>1, <1>7, <2>1, <2>2, NothingAfter
  <1> QED
    BY <1>4, <1>5, <1>8, <1>9, OwnBrowser

\* The answer clears the cookie, or finds none.
LEMMA ClearBrowsers ==
  ASSUME BrowserInv, NEW t \in Tab, Types', Refuse(t) \/ SignedOut(t)
  PROVE  Browsers'
  <1> DEFINE b == home[t]
  <1>1. /\ req[t].at \in {"refuse", "missing", "cleared"} /\ Done(t)
        /\ UNCHANGED <<home, row, stale, born, untidy>>
        /\ left' \in {left, left \cup {b}}
        /\ excused' \in {excused, excused \cup {b}}
        /\ req[t].at = "cleared" => excused' = excused \cup {b}
        /\ cookie' = [cookie EXCEPT ![b] = 0] \/ (cookie' = cookie /\ left' = left)
    BY DEF Refuse, SignedOut, given, history
  <1>2. /\ \A u \in Tab \ {t} : req'[u] = req[u]
        /\ req'[t] = Idle
    BY <1>1 DEF BrowserInv, Types, TypeOK, Done
  <1>3. /\ b \in Browser
        /\ cookie'[b] = 0 \/ (cookie'[b] = cookie[b] /\ left' = left)
        /\ \A c \in Browser \ {b} : cookie'[c] = cookie[c]
    BY <1>1 DEF BrowserInv, Types, TypeOK
  <1>4. TabStep(t) /\ Issued' = Issued
    BY <1>1, <1>2, <1>3, PlainTabStep
  <1>5. TokensOwned' /\ excused' \subseteq Browser
    BY <1>1, <1>2, <1>3, <1>4, OwnedKept DEF BrowserInv, Types, TypeOK, Idle
  <1>6. Undisturbed(t)' /\ Tidy(t)'
    BY <1>2 DEF Undisturbed, Tidy, Presents, Idle
  <1>7. SignedIn(home[t])'
    <2>1. b \in excused'
      BY <1>1, QuietBefore DEF Undisturbed
    <2> QED
      BY <1>1, <2>1, SignedAfter
  <1>8. LeavesNothing(home[t])'
    <2>1. ASSUME b \notin untidy
          PROVE  /\ \A u \in Tab \ {t} : home[u] = b => req'[u].at = "idle"
                 /\ DeadCookie(home[t])'
                 /\ \A k \in Issued' : ~ (Live(k)' /\ born'[k].owner = b)
      <3>1. /\ \A u \in Tab \ {t} : home[u] = b => req[u].at = "idle"
            /\ Tidy(t)
            /\ \A k \in Issued : Live(k) /\ born[k].owner = b => cookie[b] = k
        BY <1>1, <2>1, QuietBefore
      <3>2. (cookie[b] # 0 => ~Live(cookie[b])) /\ 0 \notin Issued
        BY <1>1, <3>1 DEF Tidy, DeadCookie, Issued, Token
      <3>3. \A k \in Issued : Live(k)' => Live(k)
        BY <1>1 DEF Live
      <3>4. DeadCookie(home[t])'
        BY <1>1, <1>3, <3>2 DEF DeadCookie, Live
      <3> QED
        BY <1>1, <1>2, <1>4, <3>1, <3>2, <3>3, <3>4
    <2> QED
      BY <1>1, <1>6, <2>1, NothingAfter
  <1> QED
    BY <1>4, <1>5, <1>7, <1>8, OwnBrowser

\* A mishap in the browser of tab t, or a refresh refused for an administrator
\* who is disabled: nothing is claimed of the browser any more.
LEMMA MishapBrowsers ==
  ASSUME BrowserInv, NEW t \in Tab, Types',
         \/ StoreFails(t) \/ Lost(t)
         \/ Lookup(t) /\ excused' = excused \cup {home[t]} /\ untidy' = untidy \cup {home[t]}
            /\ Go(t, "refuse")
  PROVE  Browsers'
  <1>1. /\ UNCHANGED <<home, row, stale, born, cookie, left>>
        /\ excused' = excused \cup {home[t]} /\ untidy' = untidy \cup {home[t]}
    BY DEF StoreFails, Lost, Lookup, Mishap, given
  <1>2. PICK a \in {"find", "refuse"} : req' = [req EXCEPT ![t] = Idle] \/ req' = [req EXCEPT ![t].at = a]
    <2>1. CASE StoreFails(t)
      BY <2>1 DEF StoreFails
    <2>2. CASE Lost(t)
      BY <2>2 DEF Lost, Done
    <2>3. CASE Go(t, "refuse")
      BY <2>3 DEF Go
    <2> QED
      BY <2>1, <2>2, <2>3
  <1>3. /\ \A u \in Tab \ {t} : req'[u] = req[u]
        /\ req'[t].token \in {req[t].token, 0}
        /\ req'[t].new \in {req[t].new, 0}
        /\ req'[t].at # "reply"
    BY <1>2 DEF BrowserInv, Types, TypeOK, Idle, Requests
  <1>4. TabStep(t)
    BY <1>1, <1>3, PlainTabStep
  <1>5. TokensOwned' /\ excused' \subseteq Browser
    BY <1>1, <1>3, <1>4, OwnedKept DEF BrowserInv, Types, TypeOK
  <1>6. SignedIn(home[t])' /\ LeavesNothing(home[t])'
    BY <1>1 DEF SignedIn, LeavesNothing
  <1> QED
    BY <1>4, <1>5, <1>6, OwnBrowser

LEMMA RevokeBrowsers ==
  ASSUME BrowserInv, NEW t \in Tab, Types', Revoke(t)
  PROVE  Browsers'
  <1> DEFINE b == home[t]
  <1>1. /\ req[t].at = "revoke"
        /\ UNCHANGED <<home, stale, cookie, born, untidy, left>>
        /\ excused' = Browser
        /\ row' = [j \in Token |-> IF Live(j) THEN "used" ELSE row[j]]
        /\ req' = [req EXCEPT ![t].at = "refuse"]
    BY DEF Revoke, RevokeChain, Go, given
  <1>2. /\ \A u \in Tab \ {t} : req'[u] = req[u]
        /\ req'[t].token = req[t].token /\ req'[t].new = req[t].new
        /\ req'[t].at = "refuse"
    BY <1>1 DEF BrowserInv, Types, TypeOK, Requests
  <1>3. Issued' = Issued /\ Issued \subseteq Token
    BY <1>1 DEF Issued
  <1>4. \A k \in Issued : ~Live(k)'
    BY <1>1, <1>3 DEF Live
  <1>5. home[t] \in Browser
    BY DEF BrowserInv, Types, TypeOK
  <1>6. TabStep(t)
    BY <1>1, <1>2, <1>3, <1>4 DEF TabStep, BrowserInv, Types, TypeOK
  <1>7. TokensOwned'
    BY <1>1, <1>2, <1>6, OwnedKept
  <1>8. SignedIn(home[t])'
    BY <1>1, <1>5 DEF SignedIn
  <1>9. LeavesNothing(home[t])'
    <2>1. DeadCookie(home[t])'
      <3>1. cookie[b] # 0 => cookie[b] \in Issued
        BY <1>5 DEF BrowserInv, Browsers, TokensOwned, Owned
      <3> QED
        BY <1>1, <1>4, <3>1 DEF DeadCookie, Live
    <2>2. Tidy(t)'
      BY <1>2, <2>1 DEF Tidy, Presents
    <2>3. b \notin untidy => \A u \in Tab \ {t} : home[u] = b => req'[u].at = "idle"
      BY <1>1, <1>2, QuietBefore
    <2> QED
      BY <1>1, <1>3, <1>4, <2>1, <2>2, <2>3, NothingAfter
  <1> QED
    BY <1>1, <1>6, <1>7, <1>8, <1>9, OwnBrowser

\* Steps of no tab in particular.
LEMMA ExpiryBrowsers ==
  ASSUME BrowserInv, NEW n \in Token, RefreshExpires(n)
  PROVE  Browsers'
  <1> DEFINE hit == {b \in Browser : cookie[b] = n \/ \E t \in Tab : home[t] = b /\ req[t].new = n}
  <1>1. /\ UNCHANGED <<home, row, cookie, req, born, left>>
        /\ excused' = excused \cup hit /\ untidy' = untidy \cup hit
        /\ stale' = stale \cup {n}
    BY DEF RefreshExpires, Mishap, given
  <1>2. Issued' = Issued
    BY <1>1 DEF Issued
  <1>3. \A k \in Issued : Live(k)' <=> Live(k) /\ k # n
    BY <1>1 DEF Live
  <1>4. TokensOwned'
    BY <1>1, <1>2 DEF BrowserInv, Browsers, TokensOwned, Owned
  <1>5. ASSUME NEW b \in Browser PROVE SignedIn(b)'
    <2> SUFFICES ASSUME b \notin excused' PROVE SignedIn(b)'
      BY DEF SignedIn
    <2>1. b \notin excused /\ cookie[b] # n /\ \A t \in Tab : home[t] = b => req[t].new # n
      BY <1>1
    <2>2. OneByOne(b) /\ (Busy(b) \/ LiveCookie(b)) /\ \A t \in Tab : home[t] = b => Undisturbed(t)
      BY <2>1 DEF BrowserInv, Browsers, SignedIn
    <2>3. LiveCookie(b) => LiveCookie(b)'
      BY <1>1, <2>1 DEF LiveCookie, Live
    <2>4. OneByOne(b)' /\ (Busy(b) \/ LiveCookie(b))'
      BY <1>1, <2>2, <2>3 DEF OneByOne, Busy
    <2>5. ASSUME NEW t \in Tab, home[t] = b PROVE Undisturbed(t)'
      <3>1. Undisturbed(t) /\ req[t].new # n
        BY <2>1, <2>2, <2>5
      <3>2. LiveCookie(home[t]) => LiveCookie(home[t])'
        BY <1>1, <2>1, <2>5 DEF LiveCookie, Live
      <3>3. Live(req[t].new) => Live(req[t].new)'
        BY <1>1, <3>1 DEF Live
      <3> QED
        BY <1>1, <3>1, <3>2, <3>3 DEF Undisturbed, Presents
    <2> QED
      BY <1>1, <2>4, <2>5 DEF SignedIn
  <1>6. ASSUME NEW b \in Browser PROVE LeavesNothing(b)'
    <2> SUFFICES ASSUME b \notin untidy' PROVE LeavesNothing(b)'
      BY DEF LeavesNothing
    <2>1. /\ b \notin untidy /\ OneByOne(b)
          /\ \A t \in Tab : home[t] = b => Tidy(t)
          /\ b \in left => DeadCookie(b)
          /\ \A k \in Issued : Live(k) /\ born[k].owner = b => cookie[b] = k \/ OnItsWay(k, b)
      BY <1>1 DEF BrowserInv, Browsers, LeavesNothing
    <2>2. DeadCookie(b) => DeadCookie(b)'
      BY <1>1 DEF DeadCookie, Live
    <2>3. OneByOne(b)'
      BY <1>1, <2>1 DEF OneByOne
    <2>4. ASSUME NEW t \in Tab, home[t] = b PROVE Tidy(t)'
      <3>1. DeadCookie(home[t]) => DeadCookie(home[t])'
        BY <1>1 DEF DeadCookie, Live
      <3> QED
        BY <1>1, <2>1, <2>4, <3>1 DEF Tidy, Presents
    <2>5. \A k \in Issued' : Live(k)' /\ born'[k].owner = b => cookie'[b] = k \/ OnItsWay(k, b)'
      BY <1>1, <1>2, <1>3, <2>1 DEF OnItsWay
    <2> QED
      BY <1>1, <2>1, <2>2, <2>3, <2>4, <2>5 DEF LeavesNothing
  <1> QED
    BY <1>4, <1>5, <1>6 DEF Browsers

LEMMA RestartBrowsers ==
  ASSUME BrowserInv, Restart \/ SetEnabled
  PROVE  Browsers'
  <1>1. UNCHANGED <<home, cookie, born>> /\ Browser \subseteq excused' /\ Browser \subseteq untidy'
    BY DEF Restart, SetEnabled, Mishap, given
  <1>2. \A t \in Tab : req'[t] \in {Idle, req[t]}
    BY DEF Restart, SetEnabled
  <1>3. Issued' = Issued
    BY <1>1 DEF Issued
  <1>4. TokensOwned'
    BY <1>1, <1>2, <1>3 DEF BrowserInv, Browsers, TokensOwned, Owned, Idle
  <1>5. \A b \in Browser : SignedIn(b)' /\ LeavesNothing(b)'
    BY <1>1 DEF SignedIn, LeavesNothing
  <1> QED
    BY <1>4, <1>5 DEF Browsers

LEMMA SameBrowsers ==
  ASSUME BrowserInv,
         UNCHANGED <<home, row, stale, cookie, req, born, excused, left, untidy>>
  PROVE  Browsers'
  <1>1. Issued' = Issued
    BY DEF Issued
  <1> QED
    BY <1>1 DEF BrowserInv, Browsers, TokensOwned, Owned, SignedIn, LeavesNothing, OneByOne, Busy,
          LiveCookie, DeadCookie, Live, Undisturbed, Presents, Tidy, OnItsWay

LEMMA BrowsersInit == Init => Browsers
  <1> SUFFICES ASSUME Init PROVE Browsers
    OBVIOUS
  <1>1. /\ \A t \in Tab : req[t] = Idle /\ home[t] \in Browser
        /\ \A b \in Browser : cookie[b] = 0
        /\ excused = Browser /\ \A k \in Token : row[k] # "live"
        /\ Issued = {}
    BY DEF Init, Issued
  <1>2. TokensOwned
    BY <1>1 DEF TokensOwned, Owned, Idle
  <1>3. \A b \in Browser : SignedIn(b)
    BY <1>1 DEF SignedIn
  <1>4. \A b \in Browser : LeavesNothing(b)
    BY <1>1 DEF LeavesNothing, OneByOne, Tidy, Presents, DeadCookie, Idle
  <1> QED
    BY <1>2, <1>3, <1>4 DEF Browsers

LEMMA BrowsersNext ==
  ASSUME BrowserInv, Types', [Next]_vars
  PROVE  Browsers'
  <1>1. ASSUME NEW t \in Tab, Call(t) \/ Queue(t) \/ Login(t) \/ Logout(t) \/ ChangePassword(t)
        PROVE  Browsers'
    <2>1. CASE Call(t)
      <3>1. PICK a : /\ a = IF cookie[home[t]] = 0 THEN "missing" ELSE "consume"
                     /\ Send(t, "refresh", a)
        BY <2>1 DEF Call
      <3>2. UNCHANGED <<home, row, stale, cookie, born>>
        BY <2>1 DEF Call, given
      <3> QED
        BY <3>1, <3>2, SendBrowsers
    <2>2. CASE Queue(t)
      BY <2>2, SameBrowsers DEF Queue, given, history
    <2>3. CASE Login(t)
      BY <2>3, SendBrowsers DEF Login, given
    <2>4. CASE Logout(t)
      <3>1. PICK a : /\ a = IF cookie[home[t]] = 0 THEN "cleared" ELSE "revokeOne"
                     /\ Send(t, "logout", a)
        BY <2>4 DEF Logout
      <3>2. UNCHANGED <<home, row, stale, cookie, born>>
        BY <2>4 DEF Logout, given
      <3> QED
        BY <3>1, <3>2, SendBrowsers
    <2>5. CASE ChangePassword(t)
      BY <2>5, SendBrowsers DEF ChangePassword, given
    <2> QED
      BY <1>1, <2>1, <2>2, <2>3, <2>4, <2>5
  <1>2. ASSUME NEW t \in Tab, ServerStep(t) PROVE Browsers'
    <2>1. CASE Lookup(t)
      <3>1. UNCHANGED <<home, row, stale, cookie, born, left>> /\ req[t].at = "lookup"
        BY <2>1 DEF Lookup, given
      <3>2. CASE Go(t, "save") /\ UNCHANGED <<excused, untidy>>
        BY <3>1, <3>2, GoBrowsers
      <3>3. CASE req[t].op = "login" /\ Done(t) /\ UNCHANGED <<excused, untidy>>
        BY <3>1, <3>3, GoBrowsers
      <3>4. CASE Go(t, "refuse") /\ excused' = excused \cup {home[t]}
                 /\ untidy' = untidy \cup {home[t]}
        BY <2>1, <3>4, MishapBrowsers
      <3> QED
        BY <2>1, <3>2, <3>3, <3>4 DEF Lookup
    <2>2. CASE Find(t)
      <3>1. Go(t, "refuse") \/ Go(t, "revoke")
        BY <2>2 DEF Find
      <3> QED
        BY <2>2, <3>1, GoBrowsers DEF Find, given, history
    <2>3. CASE Verify(t)
      <3>1. UNCHANGED <<home, row, stale, cookie, born, excused, untidy, left>> /\ req[t].at = "verify"
        BY <2>3 DEF Verify, given, history
      <3>2. CASE Go(t, "write")
        BY <3>1, <3>2, GoBrowsers
      <3>3. CASE req' = [req EXCEPT ![t] =
                   [op |-> "refresh", token |-> cookie[home[t]], new |-> 0,
                    at |-> IF cookie[home[t]] = 0 THEN "missing" ELSE "consume"]]
        BY <3>1, <3>3, RetryBrowsers
      <3> QED
        BY <2>3, <3>2, <3>3 DEF Verify
    <2>4. CASE Write(t)
      BY <2>4, GoBrowsers DEF Write, given, history
    <2> QED
      BY <1>2, <2>1, <2>2, <2>3, <2>4, TakesBrowsers, SaveBrowsers, RevokeBrowsers DEF ServerStep
  <1>3. ASSUME NEW t \in Tab, Answer(t) PROVE Browsers'
    BY <1>3, ReplyBrowsers, ClearBrowsers DEF Answer
  <1>4. ASSUME NEW t \in Tab, AccessExpires(t) PROVE Browsers'
    BY <1>4, SameBrowsers DEF AccessExpires, given, history
  <1>5. CASE UNCHANGED vars
    BY <1>5, SameBrowsers DEF vars, given, history
  <1> QED
    BY <1>1, <1>2, <1>3, <1>4, <1>5, MishapBrowsers, ExpiryBrowsers, RestartBrowsers DEF Next

LEMMA BrowsersAlways == Spec => []BrowserInv
  <1>1. Init => BrowserInv
    BY ChainInit, BrowsersInit DEF ChainInv, Chains, BrowserInv
  <1>2. ChainInv /\ ChainInv' /\ BrowserInv /\ [Next]_vars => BrowserInv'
    BY BrowsersNext DEF ChainInv, Chains, BrowserInv
  <1> QED
    BY <1>1, <1>2, ChainAlways, PTL DEF Spec

\* A browser at rest that did nothing out of the ordinary has a session that
\* the server still knows, and only a browser that did has the chain revoked
\* (Service.Refresh's reuse check never hits plain use).
THEOREM SignOutsAreExplained == Spec => []SignOutExplained
  <1>1. BrowserInv => SignOutExplained
    <2> SUFFICES ASSUME BrowserInv PROVE SignOutExplained
      OBVIOUS
    <2>1. \A b \in Browser : SignedIn(b)
      BY DEF BrowserInv, Browsers
    <2>2. \A t \in Tab : home[t] \in Browser
      BY DEF BrowserInv, Types, TypeOK
    <2>3. \A b \in Browser : (b \notin excused /\ ~Busy(b)) => cookie[b] # 0 /\ Live(cookie[b])
      BY <2>1 DEF SignedIn, LiveCookie
    <2>4. \A t \in Tab : req[t].at = "revoke" => home[t] \in excused
      BY <2>1, <2>2 DEF SignedIn, Undisturbed
    <2> QED
      BY <2>3, <2>4 DEF SignOutExplained
  <1> QED
    BY <1>1, BrowsersAlways, PTL

\* Once a logout has been answered, no token of that browser is valid on the
\* server, provided its requests never overlapped or failed (Service.RevokeOne
\* and the cookie it is given).
THEOREM LogoutsEndSessions == Spec => []LogoutEndsSession
  <1>1. BrowserInv => LogoutEndsSession
    <2> SUFFICES ASSUME BrowserInv, NEW b \in Browser, b \in left \ untidy, ~Busy(b),
                        NEW k \in Issued, born[k].owner = b, Live(k)
                 PROVE  FALSE
      BY DEF LogoutEndsSession
    <2>1. LeavesNothing(b)
      BY DEF BrowserInv, Browsers
    <2>2. ~OnItsWay(k, b)
      BY DEF OnItsWay, Busy
    <2>3. cookie[b] = k /\ k # 0
      BY <2>1, <2>2 DEF LeavesNothing, Issued, Token
    <2> QED
      BY <2>1, <2>3 DEF LeavesNothing, DeadCookie
  <1> QED
    BY <1>1, BrowsersAlways, PTL
=============================================================================
