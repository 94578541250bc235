------------------------ MODULE PermissionCacheProofs ------------------------
(***************************************************************************)
(* The invariants of PermissionCache, for any tokens, requests and number  *)
(* of changes.                                                             *)
(***************************************************************************)
EXTENDS PermissionCache, TLAPS

\* What a request holds on to at each of its steps.
RequestInv ==
    \A r \in Request :
        /\ pc[r] \in {"login", "store", "mark"} => tok[r] \in Token
        /\ pc[r] = "store" => fetched[r] \in Permissions

\* Whom the session is about, while the requests that set it do not overlap: a request
\* under way is about the session's user, a login finds nobody, and permissions without a
\* user are about to be dropped.
SessionInv ==
    ~overlapped =>
        /\ \A r \in Request :
              /\ pc[r] \in {"store", "mark"} => tok[r] = sessionUser
              /\ pc[r] = "store" => fetched[r].of \in {tok[r], None}
              /\ pc[r] = "login" => sessionUser = None
        /\ sessionUser = None /\ permission # None => \E r \in Request : pc[r] = "drop"

\* A committed change that is not lost is in the topic, or tokenSet was cleared since.
MessageInv ==
    /\ cleared <= db
    /\ admin = "commit" => db < MaxChanges
    /\ admin = "send" => db > 0 /\ Len(topic) < MaxChanges
    /\ \A c \in Change \ lost :
          c <= db /\ ~(admin = "send" /\ c = db)
              => c <= cleared \/ \E i \in DOMAIN topic : topic[i] >= c

\* isChanged is set before anything is cleared, and for good.
ChangedInv == cleared > 0 \/ listener # "wait" => isChanged

Old(p) == p # None /\ p.version < cleared

\* Permissions from before the last clear are marked as new only by a token that is raced.
MarkInv ==
    /\ \A r \in Request : pc[r] = "store" /\ Old(fetched[r]) => tok[r] \in raced
    /\ ~overlapped /\ Old(permission) =>
          /\ \A r \in Request : pc[r] = "mark" => tok[r] \in raced
          /\ sessionUser # None => sessionUser \notin tokenSet \ raced

\* What the listener, and the filter's start, have fetched and stored.
LoadInv ==
    /\ listener = "store" => loaded \in Nat /\ loaded >= cleared
    /\ filter = "store" => filterLoaded \in Nat /\ (filterLoaded >= cleared \/ startRaced)
    /\ listener \in {"wait", "clear"} /\ applicationSet # None
          => applicationSet >= cleared \/ startRaced

IInv ==
    /\ TypeOK /\ RequestInv /\ SessionInv /\ OwnPermissions
    /\ MessageInv /\ ChangedInv /\ MarkInv /\ LoadInv

-----------------------------------------------------------------------------
\* The topic without its first message, and with one more.
LEMMA TopicTail ==
    ASSUME topic \in Seq(Change), topic # <<>>
    PROVE  /\ Head(topic) \in Change
           /\ Tail(topic) \in Seq(Change) /\ Len(Tail(topic)) = Len(topic) - 1
           /\ \A i \in DOMAIN topic :
                 \/ topic[i] = Head(topic)
                 \/ \E j \in DOMAIN Tail(topic) : Tail(topic)[j] = topic[i]
<1>1. /\ Head(topic) \in Change
      /\ Tail(topic) \in Seq(Change) /\ Len(Tail(topic)) = Len(topic) - 1
  OBVIOUS
<1>2. ASSUME NEW i \in DOMAIN topic, i # 1
      PROVE  i - 1 \in DOMAIN Tail(topic) /\ Tail(topic)[i - 1] = topic[i]
  BY <1>2
<1>3. topic[1] = Head(topic)
  OBVIOUS
<1> QED
  BY <1>1, <1>2, <1>3

LEMMA TopicAppend ==
    ASSUME topic \in Seq(Change), NEW c \in Change
    PROVE  /\ Append(topic, c) \in Seq(Change) /\ Len(Append(topic, c)) = Len(topic) + 1
           /\ \E i \in DOMAIN Append(topic, c) : Append(topic, c)[i] = c
           /\ \A i \in DOMAIN topic :
                 i \in DOMAIN Append(topic, c) /\ Append(topic, c)[i] = topic[i]
<1>1. Len(topic) + 1 \in DOMAIN Append(topic, c) /\ Append(topic, c)[Len(topic) + 1] = c
  OBVIOUS
<1> QED
  BY <1>1

LEMMA TypeNext == TypeOK /\ RequestInv /\ MessageInv /\ [Next]_vars => TypeOK'
<1> SUFFICES ASSUME TypeOK, RequestInv, MessageInv, [Next]_vars PROVE TypeOK'
  OBVIOUS
<1> USE NoneAssumption, BoundAssumption DEF RequestInv, TypeOK, Version, Change,
     Permissions, Labels, Tokens!StatusTypeOK, server, monitor, loader, session, request
<1>1. ASSUME EndToken PROVE TypeOK'
  BY <1>1 DEF EndToken, Tokens!End
<1>2. ASSUME AllocateSends PROVE TypeOK'
  <2>1. db + 1 \in Change
    BY <1>2 DEF AllocateSends
  <2>2. CASE Sent(db + 1)
    <3>1. topic' = Append(topic, db + 1) /\ Len(topic) < MaxChanges
      BY <1>2, <2>2 DEF AllocateSends, Sent
    <3>2. topic' \in Seq(Change) /\ Len(topic') <= MaxChanges
      BY <2>1, <3>1, TopicAppend
    <3> QED
      BY <1>2, <3>2 DEF AllocateSends
  <2>3. CASE UNCHANGED topic
    BY <1>2, <2>3 DEF AllocateSends
  <2> QED
    BY <1>2, <2>2, <2>3 DEF AllocateSends
<1>3. ASSUME AllocateCommits PROVE TypeOK'
  BY <1>3 DEF AllocateCommits, Lose, MessageInv
<1>4. ASSUME SaveCommits PROVE TypeOK'
  BY <1>4 DEF SaveCommits
<1>5. ASSUME SaveSends PROVE TypeOK'
  <2>1. db \in Change /\ Len(topic) < MaxChanges
    BY <1>5 DEF SaveSends, MessageInv
  <2>2. CASE Sent(db) /\ UNCHANGED lost
    BY <1>5, <2>1, <2>2, TopicAppend DEF SaveSends, Sent
  <2>3. CASE Lose({db}) /\ UNCHANGED topic
    BY <1>5, <2>1, <2>3 DEF SaveSends, Lose
  <2> QED
    BY <1>5, <2>2, <2>3 DEF SaveSends
<1>6. ASSUME DeletePermission PROVE TypeOK'
  BY <1>6 DEF DeletePermission, Lose
<1>7. ASSUME LoseMessage PROVE TypeOK'
  <2>1. topic' \in Seq(Change) /\ Len(topic') <= MaxChanges
    BY <1>7, TopicTail DEF LoseMessage
  <2>2. lost' \in SUBSET Change
    BY <1>7 DEF LoseMessage, Lose
  <2> QED
    BY <1>7, <2>1, <2>2 DEF LoseMessage
<1>8. ASSUME SetChanged PROVE TypeOK'
  BY <1>8 DEF SetChanged
<1>9. ASSUME ClearTokens PROVE TypeOK'
  BY <1>9, TopicTail DEF ClearTokens, Told
<1>10. ASSUME ListenerFetches PROVE TypeOK'
  BY <1>10 DEF ListenerFetches
<1>11. ASSUME ListenerStores PROVE TypeOK'
  BY <1>11 DEF ListenerStores
<1>12. ASSUME ListenerFails PROVE TypeOK'
  BY <1>12 DEF ListenerFails
<1>13. ASSUME FilterFetches PROVE TypeOK'
  BY <1>13 DEF FilterFetches
<1>14. ASSUME FilterStores PROVE TypeOK'
  BY <1>14 DEF FilterStores
<1>15. ASSUME FilterFails PROVE TypeOK'
  BY <1>15 DEF FilterFails
<1>16. ASSUME NEW r \in Request, NEW t \in Token, Authenticate(r, t) PROVE TypeOK'
  BY <1>16 DEF Authenticate, Goto
<1>17. ASSUME NEW r \in Request, SetSessionUser(r) PROVE TypeOK'
  BY <1>17 DEF SetSessionUser, End, Goto, Alone
<1>18. ASSUME NEW r \in Request, ForgetUser(r) PROVE TypeOK'
  BY <1>18 DEF ForgetUser, Goto, Alone
<1>19. ASSUME NEW r \in Request, DropPermission(r) PROVE TypeOK'
  BY <1>19 DEF DropPermission, End, Goto, Alone
<1>20. ASSUME NEW r \in Request, Enter(r) PROVE TypeOK'
  BY <1>20 DEF Enter, Goto
<1>21. ASSUME NEW r \in Request, Permit(r) PROVE TypeOK'
  BY <1>21 DEF Permit, Goto, End, Changed
<1>22. ASSUME NEW r \in Request, FetchPermissions(r) PROVE TypeOK'
  <2>1. CASE End(r)
    <3>1. /\ pc' \in [Request -> Labels]
          /\ tok' \in [Request -> Token \cup {None}]
          /\ fetched' \in [Request -> Permissions \cup {None}]
      <4> HIDE DEF Permissions
      <4> QED
        BY <1>22, <2>1 DEF FetchPermissions, Goto, End
    <3> QED
      BY <1>22, <3>1 DEF FetchPermissions
  <2>2. CASE ~End(r)
    <3>1. [of |-> IF status[sessionUser] = "live" THEN sessionUser ELSE None,
           version |-> db] \in Permissions
      BY <1>22, <2>2 DEF FetchPermissions
    <3> QED
      BY <1>22, <2>2, <3>1 DEF FetchPermissions, Goto
  <2> QED
    BY <2>1, <2>2
<1>23. ASSUME NEW r \in Request, SetSessionPermission(r) PROVE TypeOK'
  BY <1>23 DEF SetSessionPermission, Goto
<1>24. ASSUME NEW r \in Request, MarkToken(r) PROVE TypeOK'
  BY <1>24 DEF MarkToken, Goto, End
<1>25. CASE UNCHANGED vars
  BY <1>25 DEF vars
<1> QED
  BY <1>1, <1>2, <1>3, <1>4, <1>5, <1>6, <1>7, <1>8, <1>9, <1>10, <1>11, <1>12, <1>13,
     <1>14, <1>15, <1>16, <1>17, <1>18, <1>19, <1>20, <1>21, <1>22, <1>23, <1>24,
          <1>25 DEF Next

LEMMA RequestNext == TypeOK /\ RequestInv /\ [Next]_vars => RequestInv'
<1> SUFFICES ASSUME TypeOK, RequestInv, [Next]_vars PROVE RequestInv'
  OBVIOUS
<1> USE NoneAssumption, BoundAssumption DEF RequestInv, TypeOK, Version, Change,
     Permissions, Labels, server, monitor, loader, session, request
<1>1. ASSUME EndToken PROVE RequestInv'
  BY <1>1 DEF EndToken, Tokens!End
<1>2. ASSUME AllocateSends PROVE RequestInv'
  BY <1>2 DEF AllocateSends, Sent
<1>3. ASSUME AllocateCommits PROVE RequestInv'
  BY <1>3 DEF AllocateCommits, Lose
<1>4. ASSUME SaveCommits PROVE RequestInv'
  BY <1>4 DEF SaveCommits
<1>5. ASSUME SaveSends PROVE RequestInv'
  BY <1>5 DEF SaveSends, Sent, Lose
<1>6. ASSUME DeletePermission PROVE RequestInv'
  BY <1>6 DEF DeletePermission, Lose
<1>7. ASSUME LoseMessage PROVE RequestInv'
  BY <1>7 DEF LoseMessage, Lose
<1>8. ASSUME SetChanged PROVE RequestInv'
  BY <1>8 DEF SetChanged
<1>9. ASSUME ClearTokens PROVE RequestInv'
  BY <1>9 DEF ClearTokens, Told
<1>10. ASSUME ListenerFetches PROVE RequestInv'
  BY <1>10 DEF ListenerFetches
<1>11. ASSUME ListenerStores PROVE RequestInv'
  BY <1>11 DEF ListenerStores
<1>12. ASSUME ListenerFails PROVE RequestInv'
  BY <1>12 DEF ListenerFails
<1>13. ASSUME FilterFetches PROVE RequestInv'
  BY <1>13 DEF FilterFetches
<1>14. ASSUME FilterStores PROVE RequestInv'
  BY <1>14 DEF FilterStores
<1>15. ASSUME FilterFails PROVE RequestInv'
  BY <1>15 DEF FilterFails
<1>16. ASSUME NEW r \in Request, NEW t \in Token, Authenticate(r, t) PROVE RequestInv'
  BY <1>16 DEF Authenticate, Goto
<1>17. ASSUME NEW r \in Request, SetSessionUser(r) PROVE RequestInv'
  BY <1>17 DEF SetSessionUser, End, Goto, Alone
<1>18. ASSUME NEW r \in Request, ForgetUser(r) PROVE RequestInv'
  BY <1>18 DEF ForgetUser, Goto, Alone
<1>19. ASSUME NEW r \in Request, DropPermission(r) PROVE RequestInv'
  BY <1>19 DEF DropPermission, End, Goto, Alone
<1>20. ASSUME NEW r \in Request, Enter(r) PROVE RequestInv'
  BY <1>20 DEF Enter, Goto
<1>21. ASSUME NEW r \in Request, Permit(r) PROVE RequestInv'
  BY <1>21 DEF Permit, Goto, End, Changed
<1>22. ASSUME NEW r \in Request, FetchPermissions(r) PROVE RequestInv'
  BY <1>22 DEF FetchPermissions, Goto, End
<1>23. ASSUME NEW r \in Request, SetSessionPermission(r) PROVE RequestInv'
  BY <1>23 DEF SetSessionPermission, Goto
<1>24. ASSUME NEW r \in Request, MarkToken(r) PROVE RequestInv'
  BY <1>24 DEF MarkToken, Goto, End
<1>25. CASE UNCHANGED vars
  BY <1>25 DEF vars
<1> QED
  BY <1>1, <1>2, <1>3, <1>4, <1>5, <1>6, <1>7, <1>8, <1>9, <1>10, <1>11, <1>12, <1>13,
     <1>14, <1>15, <1>16, <1>17, <1>18, <1>19, <1>20, <1>21, <1>22, <1>23, <1>24,
          <1>25 DEF Next

LEMMA LoadNext == TypeOK /\ MessageInv /\ LoadInv /\ [Next]_vars => LoadInv'
<1> SUFFICES ASSUME TypeOK, MessageInv, LoadInv, [Next]_vars PROVE LoadInv'
  OBVIOUS
<1> USE NoneAssumption, BoundAssumption DEF MessageInv, LoadInv, TypeOK, Version, Change,
     Permissions, Labels, server, monitor, loader, session, request
<1>1. ASSUME EndToken PROVE LoadInv'
  BY <1>1 DEF EndToken, Tokens!End
<1>2. ASSUME AllocateSends PROVE LoadInv'
  BY <1>2 DEF AllocateSends, Sent
<1>3. ASSUME AllocateCommits PROVE LoadInv'
  BY <1>3 DEF AllocateCommits, Lose
<1>4. ASSUME SaveCommits PROVE LoadInv'
  BY <1>4 DEF SaveCommits
<1>5. ASSUME SaveSends PROVE LoadInv'
  BY <1>5 DEF SaveSends, Sent, Lose
<1>6. ASSUME DeletePermission PROVE LoadInv'
  BY <1>6 DEF DeletePermission, Lose
<1>7. ASSUME LoseMessage PROVE LoadInv'
  BY <1>7 DEF LoseMessage, Lose
<1>8. ASSUME SetChanged PROVE LoadInv'
  BY <1>8 DEF SetChanged
<1>9. ASSUME ClearTokens PROVE LoadInv'
  BY <1>9 DEF ClearTokens, Told
<1>10. ASSUME ListenerFetches PROVE LoadInv'
  BY <1>10 DEF ListenerFetches
<1>11. ASSUME ListenerStores PROVE LoadInv'
  BY <1>11 DEF ListenerStores
<1>12. ASSUME ListenerFails PROVE LoadInv'
  BY <1>12 DEF ListenerFails
<1>13. ASSUME FilterFetches PROVE LoadInv'
  BY <1>13 DEF FilterFetches
<1>14. ASSUME FilterStores PROVE LoadInv'
  BY <1>14 DEF FilterStores
<1>15. ASSUME FilterFails PROVE LoadInv'
  BY <1>15 DEF FilterFails
<1>16. ASSUME NEW r \in Request, NEW t \in Token, Authenticate(r, t) PROVE LoadInv'
  BY <1>16 DEF Authenticate, Goto
<1>17. ASSUME NEW r \in Request, SetSessionUser(r) PROVE LoadInv'
  BY <1>17 DEF SetSessionUser, End, Goto, Alone
<1>18. ASSUME NEW r \in Request, ForgetUser(r) PROVE LoadInv'
  BY <1>18 DEF ForgetUser, Goto, Alone
<1>19. ASSUME NEW r \in Request, DropPermission(r) PROVE LoadInv'
  BY <1>19 DEF DropPermission, End, Goto, Alone
<1>20. ASSUME NEW r \in Request, Enter(r) PROVE LoadInv'
  BY <1>20 DEF Enter, Goto
<1>21. ASSUME NEW r \in Request, Permit(r) PROVE LoadInv'
  BY <1>21 DEF Permit, Goto, End, Changed
<1>22. ASSUME NEW r \in Request, FetchPermissions(r) PROVE LoadInv'
  BY <1>22 DEF FetchPermissions, Goto, End
<1>23. ASSUME NEW r \in Request, SetSessionPermission(r) PROVE LoadInv'
  BY <1>23 DEF SetSessionPermission, Goto
<1>24. ASSUME NEW r \in Request, MarkToken(r) PROVE LoadInv'
  BY <1>24 DEF MarkToken, Goto, End
<1>25. CASE UNCHANGED vars
  BY <1>25 DEF vars
<1> QED
  BY <1>1, <1>2, <1>3, <1>4, <1>5, <1>6, <1>7, <1>8, <1>9, <1>10, <1>11, <1>12, <1>13,
     <1>14, <1>15, <1>16, <1>17, <1>18, <1>19, <1>20, <1>21, <1>22, <1>23, <1>24,
          <1>25 DEF Next

LEMMA SessionNext == TypeOK /\ RequestInv /\ SessionInv /\ [Next]_vars => SessionInv'
<1> SUFFICES ASSUME TypeOK, RequestInv, SessionInv, [Next]_vars PROVE SessionInv'
  OBVIOUS
<1> USE NoneAssumption, BoundAssumption DEF RequestInv, SessionInv, TypeOK, Version,
     Change, Permissions, Labels, server, monitor, loader, session, request
<1>1. ASSUME EndToken PROVE SessionInv'
  BY <1>1 DEF EndToken, Tokens!End
<1>2. ASSUME AllocateSends PROVE SessionInv'
  BY <1>2 DEF AllocateSends, Sent
<1>3. ASSUME AllocateCommits PROVE SessionInv'
  BY <1>3 DEF AllocateCommits, Lose
<1>4. ASSUME SaveCommits PROVE SessionInv'
  BY <1>4 DEF SaveCommits
<1>5. ASSUME SaveSends PROVE SessionInv'
  BY <1>5 DEF SaveSends, Sent, Lose
<1>6. ASSUME DeletePermission PROVE SessionInv'
  BY <1>6 DEF DeletePermission, Lose
<1>7. ASSUME LoseMessage PROVE SessionInv'
  BY <1>7 DEF LoseMessage, Lose
<1>8. ASSUME SetChanged PROVE SessionInv'
  BY <1>8 DEF SetChanged
<1>9. ASSUME ClearTokens PROVE SessionInv'
  BY <1>9 DEF ClearTokens, Told
<1>10. ASSUME ListenerFetches PROVE SessionInv'
  BY <1>10 DEF ListenerFetches
<1>11. ASSUME ListenerStores PROVE SessionInv'
  BY <1>11 DEF ListenerStores
<1>12. ASSUME ListenerFails PROVE SessionInv'
  BY <1>12 DEF ListenerFails
<1>13. ASSUME FilterFetches PROVE SessionInv'
  BY <1>13 DEF FilterFetches
<1>14. ASSUME FilterStores PROVE SessionInv'
  BY <1>14 DEF FilterStores
<1>15. ASSUME FilterFails PROVE SessionInv'
  BY <1>15 DEF FilterFails
<1>16. ASSUME NEW r \in Request, NEW t \in Token, Authenticate(r, t) PROVE SessionInv'
  BY <1>16 DEF Authenticate, Goto
<1>17. ASSUME NEW r \in Request, SetSessionUser(r) PROVE SessionInv'
  BY <1>17 DEF SetSessionUser, End, Goto, Alone
<1>18. ASSUME NEW r \in Request, ForgetUser(r) PROVE SessionInv'
  BY <1>18 DEF ForgetUser, Goto, Alone
<1>19. ASSUME NEW r \in Request, DropPermission(r) PROVE SessionInv'
  BY <1>19 DEF DropPermission, End, Goto, Alone
<1>20. ASSUME NEW r \in Request, Enter(r) PROVE SessionInv'
  BY <1>20 DEF Enter, Goto
<1>21. ASSUME NEW r \in Request, Permit(r) PROVE SessionInv'
  BY <1>21 DEF Permit, Goto, End, Changed
<1>22. ASSUME NEW r \in Request, FetchPermissions(r) PROVE SessionInv'
  BY <1>22 DEF FetchPermissions, Goto, End
<1>23. ASSUME NEW r \in Request, SetSessionPermission(r) PROVE SessionInv'
  BY <1>23 DEF SetSessionPermission, Goto
<1>24. ASSUME NEW r \in Request, MarkToken(r) PROVE SessionInv'
  BY <1>24 DEF MarkToken, Goto, End
<1>25. CASE UNCHANGED vars
  BY <1>25 DEF vars
<1> QED
  BY <1>1, <1>2, <1>3, <1>4, <1>5, <1>6, <1>7, <1>8, <1>9, <1>10, <1>11, <1>12, <1>13,
     <1>14, <1>15, <1>16, <1>17, <1>18, <1>19, <1>20, <1>21, <1>22, <1>23, <1>24,
          <1>25 DEF Next

LEMMA OwnNext ==
    TypeOK /\ RequestInv /\ SessionInv /\ OwnPermissions /\ [Next]_vars
    => OwnPermissions'
<1> SUFFICES ASSUME TypeOK, RequestInv, SessionInv, OwnPermissions, [Next]_vars
             PROVE  OwnPermissions'
  OBVIOUS
<1> USE NoneAssumption, BoundAssumption DEF OwnPermissions, RequestInv, SessionInv,
     TypeOK, Version, Change, Permissions, Labels, server, monitor, loader, session,
     request
<1>1. ASSUME EndToken PROVE OwnPermissions'
  BY <1>1 DEF EndToken, Tokens!End
<1>2. ASSUME AllocateSends PROVE OwnPermissions'
  BY <1>2 DEF AllocateSends, Sent
<1>3. ASSUME AllocateCommits PROVE OwnPermissions'
  BY <1>3 DEF AllocateCommits, Lose
<1>4. ASSUME SaveCommits PROVE OwnPermissions'
  BY <1>4 DEF SaveCommits
<1>5. ASSUME SaveSends PROVE OwnPermissions'
  BY <1>5 DEF SaveSends, Sent, Lose
<1>6. ASSUME DeletePermission PROVE OwnPermissions'
  BY <1>6 DEF DeletePermission, Lose
<1>7. ASSUME LoseMessage PROVE OwnPermissions'
  BY <1>7 DEF LoseMessage, Lose
<1>8. ASSUME SetChanged PROVE OwnPermissions'
  BY <1>8 DEF SetChanged
<1>9. ASSUME ClearTokens PROVE OwnPermissions'
  BY <1>9 DEF ClearTokens, Told
<1>10. ASSUME ListenerFetches PROVE OwnPermissions'
  BY <1>10 DEF ListenerFetches
<1>11. ASSUME ListenerStores PROVE OwnPermissions'
  BY <1>11 DEF ListenerStores
<1>12. ASSUME ListenerFails PROVE OwnPermissions'
  BY <1>12 DEF ListenerFails
<1>13. ASSUME FilterFetches PROVE OwnPermissions'
  BY <1>13 DEF FilterFetches
<1>14. ASSUME FilterStores PROVE OwnPermissions'
  BY <1>14 DEF FilterStores
<1>15. ASSUME FilterFails PROVE OwnPermissions'
  BY <1>15 DEF FilterFails
<1>16. ASSUME NEW r \in Request, NEW t \in Token, Authenticate(r, t) PROVE OwnPermissions'
  BY <1>16 DEF Authenticate, Goto
<1>17. ASSUME NEW r \in Request, SetSessionUser(r) PROVE OwnPermissions'
  BY <1>17 DEF SetSessionUser, End, Goto, Alone
<1>18. ASSUME NEW r \in Request, ForgetUser(r) PROVE OwnPermissions'
  BY <1>18 DEF ForgetUser, Goto, Alone
<1>19. ASSUME NEW r \in Request, DropPermission(r) PROVE OwnPermissions'
  BY <1>19 DEF DropPermission, End, Goto, Alone
<1>20. ASSUME NEW r \in Request, Enter(r) PROVE OwnPermissions'
  BY <1>20 DEF Enter, Goto
<1>21. ASSUME NEW r \in Request, Permit(r) PROVE OwnPermissions'
  BY <1>21 DEF Permit, Goto, End, Changed
<1>22. ASSUME NEW r \in Request, FetchPermissions(r) PROVE OwnPermissions'
  BY <1>22 DEF FetchPermissions, Goto, End
<1>23. ASSUME NEW r \in Request, SetSessionPermission(r) PROVE OwnPermissions'
  BY <1>23 DEF SetSessionPermission, Goto
<1>24. ASSUME NEW r \in Request, MarkToken(r) PROVE OwnPermissions'
  BY <1>24 DEF MarkToken, Goto, End
<1>25. CASE UNCHANGED vars
  BY <1>25 DEF vars
<1> QED
  BY <1>1, <1>2, <1>3, <1>4, <1>5, <1>6, <1>7, <1>8, <1>9, <1>10, <1>11, <1>12, <1>13,
     <1>14, <1>15, <1>16, <1>17, <1>18, <1>19, <1>20, <1>21, <1>22, <1>23, <1>24,
          <1>25 DEF Next

LEMMA MessageNext == TypeOK /\ MessageInv /\ [Next]_vars => MessageInv'
<1> SUFFICES ASSUME TypeOK, MessageInv, [Next]_vars PROVE MessageInv'
  OBVIOUS
<1> USE NoneAssumption, BoundAssumption DEF MessageInv, TypeOK, Version, Change,
     Permissions, Labels, server, monitor, loader, session, request
<1>1. ASSUME EndToken PROVE MessageInv'
  BY <1>1 DEF EndToken, Tokens!End
<1>2. ASSUME AllocateSends PROVE MessageInv'
  BY <1>2, TopicAppend DEF AllocateSends, Sent
<1>3. ASSUME AllocateCommits PROVE MessageInv'
  <2>1. ASSUME NEW c \in Change \ lost', c <= db'
        PROVE  c <= cleared \/ \E i \in DOMAIN topic : topic[i] >= c
    <3>1. CASE c = db + 1
      <4>1. PICK i \in DOMAIN topic : topic[i] = db + 1
        BY <1>3, <2>1, <3>1 DEF AllocateCommits, Lose
      <4> QED
        BY <3>1, <4>1
    <3>2. CASE c <= db
      BY <1>3, <2>1, <3>2 DEF AllocateCommits, Lose
    <3> QED
      BY <1>3, <2>1, <3>1, <3>2 DEF AllocateCommits
  <2> QED
    BY <1>3, <2>1 DEF AllocateCommits
<1>4. ASSUME SaveCommits PROVE MessageInv'
  BY <1>4 DEF SaveCommits
<1>5. ASSUME SaveSends PROVE MessageInv'
  <2>1. db \in Change /\ admin' = "idle" /\ UNCHANGED <<db, cleared>>
    BY <1>5 DEF SaveSends
  <2>2. CASE Sent(db) /\ UNCHANGED lost
    <3>1. /\ \E i \in DOMAIN topic' : topic'[i] = db
          /\ \A i \in DOMAIN topic : i \in DOMAIN topic' /\ topic'[i] = topic[i]
      BY <2>1, <2>2, TopicAppend DEF Sent
    <3>2. ASSUME NEW c \in Change \ lost, c <= db
          PROVE  c <= cleared \/ \E i \in DOMAIN topic' : topic'[i] >= c
      <4>1. CASE c = db
        BY <2>1, <3>1, <4>1
      <4>2. CASE c # db
        BY <3>1, <3>2, <4>2
      <4> QED
        BY <4>1, <4>2
    <3> QED
      BY <2>1, <2>2, <3>2
  <2>3. CASE Lose({db}) /\ UNCHANGED topic
    BY <2>1, <2>3 DEF Lose
  <2> QED
    BY <1>5, <2>2, <2>3 DEF SaveSends
<1>6. ASSUME DeletePermission PROVE MessageInv'
  BY <1>6 DEF DeletePermission, Lose
<1>7. ASSUME LoseMessage PROVE MessageInv'
  <2> DEFINE told == Head(topic)
  <2>1. /\ told \in Change /\ Len(topic') < Len(topic)
        /\ \A i \in DOMAIN topic :
              topic[i] = told \/ \E j \in DOMAIN topic' : topic'[j] = topic[i]
    BY <1>7, TopicTail DEF LoseMessage
  <2>2. lost \subseteq lost' /\ \A c \in Change \ lost' : c <= cleared \/ c > told
    BY <1>7, <2>1 DEF LoseMessage, Lose
  <2>3. UNCHANGED <<db, admin, cleared>>
    BY <1>7 DEF LoseMessage
  <2> HIDE DEF told
  <2>4. ASSUME NEW c \in Change \ lost', c <= db, ~(admin = "send" /\ c = db),
               ~(c <= cleared)
        PROVE  \E j \in DOMAIN topic' : topic'[j] >= c
    <3>1. PICK i \in DOMAIN topic : topic[i] >= c
      BY <2>2, <2>4
    <3>2. topic[i] # told
      BY <2>1, <2>2, <2>4, <3>1
    <3> QED
      BY <2>1, <3>1, <3>2
  <2> QED
    BY <2>1, <2>3, <2>4
<1>8. ASSUME SetChanged PROVE MessageInv'
  BY <1>8 DEF SetChanged
<1>9. ASSUME ClearTokens PROVE MessageInv'
  <2> DEFINE told == Head(topic)
  <2>1. /\ told \in Change /\ Len(topic') < Len(topic)
        /\ \A i \in DOMAIN topic :
              topic[i] = told \/ \E j \in DOMAIN topic' : topic'[j] = topic[i]
    BY <1>9, TopicTail DEF ClearTokens
  <2>2. /\ cleared' \in Nat /\ cleared' <= db /\ cleared <= cleared'
        /\ told <= db => told <= cleared'
        /\ told > db => cleared' = db
    BY <1>9, <2>1 DEF ClearTokens, Told
  <2>3. UNCHANGED <<db, admin, lost>>
    BY <1>9 DEF ClearTokens
  <2> HIDE DEF told
  <2>4. ASSUME NEW c \in Change \ lost, c <= db, ~(admin = "send" /\ c = db),
               ~(c <= cleared')
        PROVE  \E j \in DOMAIN topic' : topic'[j] >= c
    <3>1. PICK i \in DOMAIN topic : topic[i] >= c
      BY <2>2, <2>4
    <3>2. topic[i] # told
      BY <2>1, <2>2, <2>4, <3>1
    <3> QED
      BY <2>1, <3>1, <3>2
  <2> QED
    BY <2>1, <2>2, <2>3, <2>4
<1>10. ASSUME ListenerFetches PROVE MessageInv'
  BY <1>10 DEF ListenerFetches
<1>11. ASSUME ListenerStores PROVE MessageInv'
  BY <1>11 DEF ListenerStores
<1>12. ASSUME ListenerFails PROVE MessageInv'
  BY <1>12 DEF ListenerFails
<1>13. ASSUME FilterFetches PROVE MessageInv'
  BY <1>13 DEF FilterFetches
<1>14. ASSUME FilterStores PROVE MessageInv'
  BY <1>14 DEF FilterStores
<1>15. ASSUME FilterFails PROVE MessageInv'
  BY <1>15 DEF FilterFails
<1>16. ASSUME NEW r \in Request, NEW t \in Token, Authenticate(r, t) PROVE MessageInv'
  BY <1>16 DEF Authenticate, Goto
<1>17. ASSUME NEW r \in Request, SetSessionUser(r) PROVE MessageInv'
  BY <1>17 DEF SetSessionUser, End, Goto, Alone
<1>18. ASSUME NEW r \in Request, ForgetUser(r) PROVE MessageInv'
  BY <1>18 DEF ForgetUser, Goto, Alone
<1>19. ASSUME NEW r \in Request, DropPermission(r) PROVE MessageInv'
  BY <1>19 DEF DropPermission, End, Goto, Alone
<1>20. ASSUME NEW r \in Request, Enter(r) PROVE MessageInv'
  BY <1>20 DEF Enter, Goto
<1>21. ASSUME NEW r \in Request, Permit(r) PROVE MessageInv'
  BY <1>21 DEF Permit, Goto, End, Changed
<1>22. ASSUME NEW r \in Request, FetchPermissions(r) PROVE MessageInv'
  BY <1>22 DEF FetchPermissions, Goto, End
<1>23. ASSUME NEW r \in Request, SetSessionPermission(r) PROVE MessageInv'
  BY <1>23 DEF SetSessionPermission, Goto
<1>24. ASSUME NEW r \in Request, MarkToken(r) PROVE MessageInv'
  BY <1>24 DEF MarkToken, Goto, End
<1>25. CASE UNCHANGED vars
  BY <1>25 DEF vars
<1> QED
  BY <1>1, <1>2, <1>3, <1>4, <1>5, <1>6, <1>7, <1>8, <1>9, <1>10, <1>11, <1>12, <1>13,
     <1>14, <1>15, <1>16, <1>17, <1>18, <1>19, <1>20, <1>21, <1>22, <1>23, <1>24,
          <1>25 DEF Next

LEMMA ChangedNext == TypeOK /\ ChangedInv /\ [Next]_vars => ChangedInv'
<1> SUFFICES ASSUME TypeOK, ChangedInv, [Next]_vars PROVE ChangedInv'
  OBVIOUS
<1> USE NoneAssumption, BoundAssumption DEF ChangedInv, TypeOK, Version, Change,
     Permissions, Labels, server, monitor, loader, session, request
<1>1. ASSUME EndToken PROVE ChangedInv'
  BY <1>1 DEF EndToken, Tokens!End
<1>2. ASSUME AllocateSends PROVE ChangedInv'
  BY <1>2 DEF AllocateSends, Sent
<1>3. ASSUME AllocateCommits PROVE ChangedInv'
  BY <1>3 DEF AllocateCommits, Lose
<1>4. ASSUME SaveCommits PROVE ChangedInv'
  BY <1>4 DEF SaveCommits
<1>5. ASSUME SaveSends PROVE ChangedInv'
  BY <1>5 DEF SaveSends, Sent, Lose
<1>6. ASSUME DeletePermission PROVE ChangedInv'
  BY <1>6 DEF DeletePermission, Lose
<1>7. ASSUME LoseMessage PROVE ChangedInv'
  BY <1>7 DEF LoseMessage, Lose
<1>8. ASSUME SetChanged PROVE ChangedInv'
  BY <1>8 DEF SetChanged
<1>9. ASSUME ClearTokens PROVE ChangedInv'
  BY <1>9 DEF ClearTokens, Told
<1>10. ASSUME ListenerFetches PROVE ChangedInv'
  BY <1>10 DEF ListenerFetches
<1>11. ASSUME ListenerStores PROVE ChangedInv'
  BY <1>11 DEF ListenerStores
<1>12. ASSUME ListenerFails PROVE ChangedInv'
  BY <1>12 DEF ListenerFails
<1>13. ASSUME FilterFetches PROVE ChangedInv'
  BY <1>13 DEF FilterFetches
<1>14. ASSUME FilterStores PROVE ChangedInv'
  BY <1>14 DEF FilterStores
<1>15. ASSUME FilterFails PROVE ChangedInv'
  BY <1>15 DEF FilterFails
<1>16. ASSUME NEW r \in Request, NEW t \in Token, Authenticate(r, t) PROVE ChangedInv'
  BY <1>16 DEF Authenticate, Goto
<1>17. ASSUME NEW r \in Request, SetSessionUser(r) PROVE ChangedInv'
  BY <1>17 DEF SetSessionUser, End, Goto, Alone
<1>18. ASSUME NEW r \in Request, ForgetUser(r) PROVE ChangedInv'
  BY <1>18 DEF ForgetUser, Goto, Alone
<1>19. ASSUME NEW r \in Request, DropPermission(r) PROVE ChangedInv'
  BY <1>19 DEF DropPermission, End, Goto, Alone
<1>20. ASSUME NEW r \in Request, Enter(r) PROVE ChangedInv'
  BY <1>20 DEF Enter, Goto
<1>21. ASSUME NEW r \in Request, Permit(r) PROVE ChangedInv'
  BY <1>21 DEF Permit, Goto, End, Changed
<1>22. ASSUME NEW r \in Request, FetchPermissions(r) PROVE ChangedInv'
  BY <1>22 DEF FetchPermissions, Goto, End
<1>23. ASSUME NEW r \in Request, SetSessionPermission(r) PROVE ChangedInv'
  BY <1>23 DEF SetSessionPermission, Goto
<1>24. ASSUME NEW r \in Request, MarkToken(r) PROVE ChangedInv'
  BY <1>24 DEF MarkToken, Goto, End
<1>25. CASE UNCHANGED vars
  BY <1>25 DEF vars
<1> QED
  BY <1>1, <1>2, <1>3, <1>4, <1>5, <1>6, <1>7, <1>8, <1>9, <1>10, <1>11, <1>12, <1>13,
     <1>14, <1>15, <1>16, <1>17, <1>18, <1>19, <1>20, <1>21, <1>22, <1>23, <1>24,
          <1>25 DEF Next

LEMMA MarkNext ==
    TypeOK /\ RequestInv /\ SessionInv /\ MessageInv /\ MarkInv /\ [Next]_vars
    => MarkInv'
<1> SUFFICES ASSUME TypeOK, RequestInv, SessionInv, MessageInv, MarkInv, [Next]_vars
             PROVE  MarkInv'
  OBVIOUS
<1> USE NoneAssumption, BoundAssumption DEF MarkInv, Old, MessageInv, RequestInv,
     SessionInv, TypeOK, Version, Change, Permissions, Labels, server, monitor, loader,
     session, request
<1>1. ASSUME EndToken PROVE MarkInv'
  BY <1>1 DEF EndToken, Tokens!End
<1>2. ASSUME AllocateSends PROVE MarkInv'
  BY <1>2 DEF AllocateSends, Sent
<1>3. ASSUME AllocateCommits PROVE MarkInv'
  BY <1>3 DEF AllocateCommits, Lose
<1>4. ASSUME SaveCommits PROVE MarkInv'
  BY <1>4 DEF SaveCommits
<1>5. ASSUME SaveSends PROVE MarkInv'
  BY <1>5 DEF SaveSends, Sent, Lose
<1>6. ASSUME DeletePermission PROVE MarkInv'
  BY <1>6 DEF DeletePermission, Lose
<1>7. ASSUME LoseMessage PROVE MarkInv'
  BY <1>7 DEF LoseMessage, Lose
<1>8. ASSUME SetChanged PROVE MarkInv'
  BY <1>8 DEF SetChanged
<1>9. ASSUME ClearTokens PROVE MarkInv'
  BY <1>9 DEF ClearTokens, Told
<1>10. ASSUME ListenerFetches PROVE MarkInv'
  BY <1>10 DEF ListenerFetches
<1>11. ASSUME ListenerStores PROVE MarkInv'
  BY <1>11 DEF ListenerStores
<1>12. ASSUME ListenerFails PROVE MarkInv'
  BY <1>12 DEF ListenerFails
<1>13. ASSUME FilterFetches PROVE MarkInv'
  BY <1>13 DEF FilterFetches
<1>14. ASSUME FilterStores PROVE MarkInv'
  BY <1>14 DEF FilterStores
<1>15. ASSUME FilterFails PROVE MarkInv'
  BY <1>15 DEF FilterFails
<1>16. ASSUME NEW r \in Request, NEW t \in Token, Authenticate(r, t) PROVE MarkInv'
  BY <1>16 DEF Authenticate, Goto
<1>17. ASSUME NEW r \in Request, SetSessionUser(r) PROVE MarkInv'
  BY <1>17 DEF SetSessionUser, End, Goto, Alone
<1>18. ASSUME NEW r \in Request, ForgetUser(r) PROVE MarkInv'
  BY <1>18 DEF ForgetUser, Goto, Alone
<1>19. ASSUME NEW r \in Request, DropPermission(r) PROVE MarkInv'
  BY <1>19 DEF DropPermission, End, Goto, Alone
<1>20. ASSUME NEW r \in Request, Enter(r) PROVE MarkInv'
  BY <1>20 DEF Enter, Goto
<1>21. ASSUME NEW r \in Request, Permit(r) PROVE MarkInv'
  <2>1. UNCHANGED <<status, server, topic, monitor, cleared, raced, session>>
    BY <1>21 DEF Permit
  <2>2. \A q \in Request : pc'[q] \in {"store", "mark"} =>
              pc'[q] = pc[q] /\ tok'[q] = tok[q] /\ fetched'[q] = fetched[q]
    BY <1>21 DEF Permit, Goto, End, Changed
  <2> QED
    BY <2>1, <2>2
<1>22. ASSUME NEW r \in Request, FetchPermissions(r) PROVE MarkInv'
  BY <1>22 DEF FetchPermissions, Goto, End
<1>23. ASSUME NEW r \in Request, SetSessionPermission(r) PROVE MarkInv'
  BY <1>23 DEF SetSessionPermission, Goto
<1>24. ASSUME NEW r \in Request, MarkToken(r) PROVE MarkInv'
  BY <1>24 DEF MarkToken, Goto, End
<1>25. CASE UNCHANGED vars
  BY <1>25 DEF vars
<1> QED
  BY <1>1, <1>2, <1>3, <1>4, <1>5, <1>6, <1>7, <1>8, <1>9, <1>10, <1>11, <1>12, <1>13,
     <1>14, <1>15, <1>16, <1>17, <1>18, <1>19, <1>20, <1>21, <1>22, <1>23, <1>24,
          <1>25 DEF Next

LEMMA Initially == Init => IInv
<1> SUFFICES ASSUME Init PROVE IInv
  OBVIOUS
<1> USE NoneAssumption, BoundAssumption DEF Init
<1>1. TypeOK
  <2>1. topic \in Seq(Change) /\ Len(topic) <= MaxChanges
    OBVIOUS
  <2>2. /\ Tokens!StatusTypeOK /\ pc \in [Request -> Labels]
        /\ tok \in [Request -> Token \cup {None}]
        /\ fetched \in [Request -> Permissions \cup {None}]
    BY DEF Labels, Tokens!StatusTypeOK
  <2>3. /\ {loaded, filterLoaded, applicationSet} \subseteq Version \cup {None}
        /\ {overlapped, startRaced} \subseteq BOOLEAN
    OBVIOUS
  <2>4. db \in Version /\ cleared \in Version
    BY DEF Version
  <2> QED
    BY <2>1, <2>2, <2>3, <2>4 DEF TypeOK
<1>2. RequestInv /\ SessionInv /\ OwnPermissions /\ ChangedInv /\ LoadInv
  BY DEF RequestInv, SessionInv, OwnPermissions, ChangedInv, LoadInv
<1>3. MessageInv /\ MarkInv
  BY DEF MessageInv, MarkInv, Old, Change
<1> QED
  BY <1>1, <1>2, <1>3 DEF IInv

LEMMA Inductive == Spec => []IInv
<1>1. IInv /\ [Next]_vars => IInv'
  BY TypeNext, RequestNext, SessionNext, OwnNext, MessageNext, ChangedNext, MarkNext,
     LoadNext
  DEF IInv
<1> QED
  BY Initially, <1>1, PTL DEF Spec

-----------------------------------------------------------------------------
\* The cache keeps to its types, whatever the messages, requests and loads do.
THEOREM TypeCorrect == Spec => []TypeOK
<1>1. IInv => TypeOK
  BY DEF IInv
<1> QED
  BY Inductive, <1>1, PTL

\* A session holds the permissions of its own user, or none, but for requests that
\* overlap while they set the two.
THEOREM PermissionsOfUser == Spec => []OwnPermissions
<1>1. IInv => OwnPermissions
  BY DEF IInv
<1> QED
  BY Inductive, <1>1, PTL

\* A session that has not seen a change is found out, but for the named races.
THEOREM StaleFoundOut == Spec => []StaleIsRefetched
<1>1. IInv => StaleIsRefetched
  <2> SUFFICES ASSUME IInv, NEW c \in Change \ lost, Delivered(c), ~overlapped,
                      sessionUser # None, permission # None, permission.version < c
               PROVE  isChanged /\ sessionUser \notin tokenSet \ raced
    BY DEF StaleIsRefetched
  <2> USE DEF IInv
  <2>1. c \in Nat \ {0} /\ cleared \in Nat /\ topic \in Seq(Nat)
    BY BoundAssumption DEF Change, TypeOK, Version
  <2>2. c <= cleared
    BY <2>1 DEF Delivered, MessageInv, TypeOK, Change
  <2>3. isChanged
    BY <2>1, <2>2 DEF ChangedInv
  <2>4. Old(permission)
    BY <2>1, <2>2 DEF Old, TypeOK, Permissions, Version
  <2> QED
    BY <2>3, <2>4 DEF MarkInv
<1> QED
  BY Inductive, <1>1, PTL

\* Between two loads the application's set has seen every change it was told of, but
\* for a failed load and an overlapped start.
THEOREM ApplicationFresh == Spec => []ApplicationSetFresh
<1>1. IInv => ApplicationSetFresh
  BY DEF IInv, LoadInv, ApplicationSetFresh
<1> QED
  BY Inductive, <1>1, PTL
=============================================================================
