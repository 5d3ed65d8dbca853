------------------------ MODULE VoipcServer_proofs ------------------------
(***************************************************************************)
(* Theorems about VoipcServer, for any number of users, channels, names    *)
(* and passwords and any limits.  The last three parts, which show that it *)
(* implements Membership and what holds of screen shares, are about        *)
(* servers nobody is kicked from.                                          *)
(***************************************************************************)
EXTENDS VoipcMembership, FiniteSetTheorems, TLAPS

USE UsersAssumption, PasswordAssumption, ChannelAssumption, BoundAssumption

----------------------------------------------------------------------------
(* Types.                                                                  *)

\* The ids the code treats specially are channel ids.
LEMMA ChannelFacts ==
    /\ General \in Channel
    /\ 1..NumPersistent \subseteq Channel
    /\ 0..NumPersistent \subseteq Channel
    /\ Created \subseteq Channel
    /\ Channel \subseteq Nat
BY DEF General, Channel, Created

\* The locals a task can hold.
LEMMA AtType ==
    ASSUME NEW l \in Labels, NEW c \in Channel, NEW p \in Secret,
           NEW o \in Channel, NEW w \in Users \cup {NoUser}, NEW e \in BOOLEAN
    PROVE  At(l, c, p, o, w, e) \in Task
BY DEF At, Task

LEMMA TaskTypes ==
    ASSUME NEW l \in Labels, NEW c \in Channel, NEW p \in Secret,
           NEW o \in Channel, NEW w \in Users \cup {NoUser}
    PROVE  /\ Resting(l) \in Task
           /\ Joining(l, c, p, o) \in Task
           /\ Leaving(l, o) \in Task
           /\ Sharing(l, c, w) \in Task
<1>1. NoPassword \in Secret /\ NoUser \in Users \cup {NoUser} /\ FALSE \in BOOLEAN
  BY DEF Secret
<1> QED BY <1>1, ChannelFacts, AtType DEF Resting, Joining, Leaving, Sharing

\* A task that goes on with well-typed locals.
LEMMA GotoType ==
    ASSUME TypeOK, NEW u \in Users, NEW t \in Task, Goto(u, t)
    PROVE  task' \in [Users -> Task]
BY DEF TypeOK, Goto

\* What a task holds.
LEMMA TaskFields ==
    ASSUME TypeOK, NEW u \in Users
    PROVE  /\ task[u].at \in Labels
           /\ task[u].ch \in Channel
           /\ task[u].pw \in Secret
           /\ task[u].old \in Channel
           /\ task[u].who \in Users \cup {NoUser}
           /\ task[u].empty \in BOOLEAN
BY DEF TypeOK, Task

LEMMA InitType == Init => TypeOK
<1> SUFFICES ASSUME Init PROVE TypeOK OBVIOUS
<1>1. "unborn" \in Labels BY DEF Labels
<1>2. NoPassword \in Secret BY DEF Secret
<1>3. Resting("unborn") \in Task BY <1>1, <1>2, ChannelFacts, TaskTypes
<1>4. nextChannel \in 1..(MaxChannelId + 1) BY DEF Init
<1>5. secret \in [Channel -> Secret] BY <1>2 DEF Init
<1>6. viewers \in [Channel -> [Users -> SUBSET Users]] BY DEF Init
<1> QED BY <1>3, <1>4, <1>5, <1>6, ChannelFacts DEF Init, TypeOK

\* What join_channel and its callers change keeps its type.
LEMMA EnterType ==
    ASSUME TypeOK, NEW u \in Users, NEW c \in Channel, Enter(u, c)
    PROVE  /\ invited' \in [Channel -> SUBSET Users]
           /\ armed' \in [Channel -> BOOLEAN]
           /\ members' \in [Channel -> SUBSET Users]
           /\ chan' \in [Users -> Channel]
           /\ online' = online
BY DEF TypeOK, Enter, MovedSession

LEMMA UnwatchType ==
    ASSUME TypeOK, NEW vs
    PROVE  Unwatch(vs) \in [Users -> Users \cup {NoUser}]
BY DEF TypeOK, Unwatch

LEMMA CleanupType ==
    ASSUME TypeOK, NEW u \in Users, NEW c \in Channel, CleanupShares(u, c)
    PROVE  /\ sharers' \in [Channel -> SUBSET Users]
           /\ viewers' \in [Channel -> [Users -> SUBSET Users]]
           /\ sharing' \in [Users -> BOOLEAN]
           /\ watching' \in [Users -> Users \cup {NoUser}]
<1>1. CASE c \notin live
  BY <1>1 DEF CleanupShares, shareVars, TypeOK
<1>2. CASE c \in live
  <2> DEFINE s == Unwatch(viewers[c][u])[u]
  <2>1. sharers' = [sharers EXCEPT ![c] = SharersWithout(u, c)]
        /\ viewers' = ViewersWithout(u, c, s)
        /\ sharing' = Unmarked(u)
        /\ watching' = [Unwatch(viewers[c][u]) EXCEPT ![u] = NoUser]
    BY <1>2 DEF CleanupShares
  <2>2. sharers' \in [Channel -> SUBSET Users]
    BY <2>1 DEF TypeOK, SharersWithout
  <2>3. viewers' \in [Channel -> [Users -> SUBSET Users]]
    BY <2>1 DEF TypeOK, ViewersWithout
  <2>4. sharing' \in [Users -> BOOLEAN]
    BY <2>1 DEF TypeOK, Unmarked
  <2>5. watching' \in [Users -> Users \cup {NoUser}]
    BY <2>1, UnwatchType
  <2> QED BY <2>2, <2>3, <2>4, <2>5
<1> QED BY <1>1, <1>2

\* A change of one viewer set.
LEMMA ViewersType ==
    ASSUME TypeOK, NEW c \in Channel, NEW s \in Users, NEW vs \in SUBSET Users
    PROVE  [viewers EXCEPT ![c][s] = vs] \in [Channel -> [Users -> SUBSET Users]]
BY DEF TypeOK

LEMMA BeginJoinType ==
    ASSUME TypeOK, NEW u \in Users, NEW c \in Channel, NEW p \in Secret,
           BeginJoin(u, c, p)
    PROVE  task' \in [Users -> Task]
<1>1. chan[u] \in Channel BY DEF TypeOK
<1>2. "join_leave" \in Labels /\ "join_cleanup" \in Labels BY DEF Labels
<1>3. NoUser \in Users \cup {NoUser} OBVIOUS
<1>4. Joining("join_leave", c, p, General) \in Task
  BY <1>2, <1>3, ChannelFacts, TaskTypes
<1>5. Joining("join_cleanup", c, p, chan[u]) \in Task
  BY <1>1, <1>2, <1>3, TaskTypes
<1> QED BY <1>4, <1>5, GotoType DEF BeginJoin

LEMMA LeaveCurrentType ==
    ASSUME TypeOK, NEW u \in Users, NEW stay \in Task, NEW timed \in Task,
           LeaveCurrent(u, stay, timed)
    PROVE  members' \in [Channel -> SUBSET Users] /\ task' \in [Users -> Task]
<1>1. members' \in [Channel -> SUBSET Users] BY DEF LeaveCurrent, TypeOK
<1>2. task' \in [Users -> Task] BY DEF LeaveCurrent, TypeOK, Goto
<1> QED BY <1>1, <1>2

LEMMA ArmTimerType ==
    ASSUME TypeOK, NEW c \in Channel, ArmTimer(c)
    PROVE  armed' \in [Channel -> BOOLEAN]
BY DEF TypeOK, ArmTimer

\* Requests preserve the types.
LEMMA RequestType ==
    ASSUME TypeOK, NEW u \in Users, Request(u)
    PROVE  TypeOK'
<1> USE DEF channelVars, memberVars, shareVars, sessionVars
<1>a. /\ NoPassword \in Secret /\ NoUser \in Users \cup {NoUser}
      /\ chan[u] \in Channel /\ watching[u] \in Users \cup {NoUser}
  BY DEF Secret, TypeOK
<1>b. /\ "idle" \in Labels /\ "join_leave" \in Labels /\ "create_join" \in Labels
      /\ "kick_move" \in Labels /\ "share_insert" \in Labels
      /\ "share_remove" \in Labels /\ "watch_mark" \in Labels
      /\ "unwatch_remove" \in Labels /\ "quit_leave" \in Labels
  BY DEF Labels
<1>1. CASE Connect(u)
  <2>1. Joining("join_leave", General, NoPassword, General) \in Task
    BY <1>a, <1>b, ChannelFacts, TaskTypes
  <2>2. task' \in [Users -> Task] BY <1>1, <2>1, GotoType DEF Connect
  <2> QED BY <1>1, <2>2 DEF Connect, TypeOK
<1>2. ASSUME NEW c \in Channel, NEW p \in Secret, JoinRequest(u, c, p) PROVE TypeOK'
  <2>1. task' \in [Users -> Task] BY <1>2, BeginJoinType DEF JoinRequest
  <2> QED BY <1>2, <2>1 DEF JoinRequest, TypeOK
<1>3. ASSUME NEW n \in Names, NEW p \in Secret, CreateChannel(u, n, p) PROVE TypeOK'
  <2>1. nextChannel \in Channel /\ nextChannel + 1 \in 1..(MaxChannelId + 1)
    BY <1>3 DEF CreateChannel, TypeOK, Channel
  <2>2. Joining("create_join", nextChannel, p, General) \in Task
    BY <1>a, <1>b, <2>1, ChannelFacts, TaskTypes
  <2>3. task' \in [Users -> Task] BY <1>3, <2>2, GotoType DEF CreateChannel
  <2>4. live' \subseteq Channel BY <1>3, <2>1 DEF CreateChannel, TypeOK
  <2>5. name' \in [Channel -> Names \cup Channel] BY <1>3 DEF CreateChannel, TypeOK
  <2>6. secret' \in [Channel -> Secret] BY <1>3 DEF CreateChannel, TypeOK
  <2>7. creator' \in [Channel -> Users \cup {NoUser}] BY <1>3 DEF CreateChannel, TypeOK
  <2>8. nextChannel' \in 1..(MaxChannelId + 1) BY <1>3, <2>1 DEF CreateChannel, NextId
  <2> QED BY <1>3, <2>3, <2>4, <2>5, <2>6, <2>7, <2>8 DEF CreateChannel, TypeOK
<1>4. ASSUME NEW c \in Channel, NEW p \in Secret, SetChannelPassword(u, c, p) PROVE TypeOK'
  BY <1>4 DEF SetChannelPassword, TypeOK
<1>5. ASSUME NEW c \in Channel, NEW t \in Users, SendInvite(u, c, t) PROVE TypeOK'
  BY <1>5 DEF SendInvite, TypeOK
<1>6. ASSUME NEW c \in Channel, DeclineInvite(u, c) PROVE TypeOK'
  BY <1>6 DEF DeclineInvite, TypeOK
<1>7. ASSUME NEW c \in Channel, NEW t \in Users, KickUser(u, c, t) PROVE TypeOK'
  <2>1. Resting("idle") \in Task BY <1>a, <1>b, ChannelFacts, TaskTypes
  <2>2. (members[c] = {t}) \in BOOLEAN OBVIOUS
  <2>3. At("kick_move", c, NoPassword, General, t, members[c] = {t}) \in Task
    BY <1>a, <1>b, <2>2, ChannelFacts, AtType
  <2>4. task' \in [Users -> Task] BY <1>7, <2>1, <2>3, GotoType DEF KickUser
  <2> QED BY <1>7, <2>4 DEF KickUser, TypeOK
<1>8. CASE StartShare(u)
  <2>1. Sharing("share_insert", chan[u], NoUser) \in Task
    BY <1>a, <1>b, ChannelFacts, TaskTypes
  <2>2. task' \in [Users -> Task] BY <1>8, <2>1, GotoType DEF StartShare
  <2> QED BY <1>8, <2>2 DEF StartShare, TypeOK
<1>9. CASE StopShare(u)
  <2>1. Sharing("share_remove", chan[u], NoUser) \in Task
    BY <1>a, <1>b, ChannelFacts, TaskTypes
  <2>2. task' \in [Users -> Task] BY <1>9, <2>1, GotoType DEF StopShare
  <2> QED BY <1>9, <2>2 DEF StopShare, TypeOK
<1>10. ASSUME NEW s \in Users, WatchShare(u, s) PROVE TypeOK'
  <2>1. Sharing("watch_mark", chan[u], s) \in Task
    BY <1>a, <1>b, ChannelFacts, TaskTypes
  <2>2. task' \in [Users -> Task] BY <1>10, <2>1, GotoType DEF WatchShare
  <2>3. viewers' \in [Channel -> [Users -> SUBSET Users]]
    BY <1>10 DEF WatchShare, TypeOK
  <2> QED BY <1>10, <2>2, <2>3 DEF WatchShare, TypeOK
<1>11. CASE StopWatching(u)
  <2>1. Sharing("unwatch_remove", chan[u], watching[u]) \in Task
    BY <1>a, <1>b, ChannelFacts, TaskTypes
  <2>2. task' \in [Users -> Task] BY <1>11, <2>1, GotoType DEF StopWatching
  <2> QED BY <1>11, <2>2 DEF StopWatching, TypeOK
<1>12. CASE Quit(u)
  <2>1. Leaving("quit_leave", General) \in Task BY <1>a, <1>b, ChannelFacts, TaskTypes
  <2>2. task' \in [Users -> Task] BY <1>12, <2>1, GotoType DEF Quit
  <2>3. /\ sharers' \in [Channel -> SUBSET Users]
        /\ viewers' \in [Channel -> [Users -> SUBSET Users]]
        /\ sharing' \in [Users -> BOOLEAN]
        /\ watching' \in [Users -> Users \cup {NoUser}]
    <3>1. CASE chan[u] # General BY <1>12, <3>1, <1>a, CleanupType DEF Quit
    <3>2. CASE chan[u] = General BY <1>12, <3>2 DEF Quit, TypeOK
    <3> QED BY <3>1, <3>2
  <2> QED BY <1>12, <2>2, <2>3 DEF Quit, TypeOK
<1> QED BY <1>1, <1>2, <1>3, <1>4, <1>5, <1>6, <1>7, <1>8, <1>9, <1>10, <1>11,
           <1>12 DEF Request

\* A kick that waits to move its target has one: KickMove could not be typed
\* without it.
KickHasTarget == \A u \in Users : task[u].at = "kick_move" => task[u].who \in Users

Typed == TypeOK /\ KickHasTarget

\* The steps of the handlers preserve the types.
LEMMA ContinueType ==
    ASSUME Typed, NEW u \in Users, Continue(u)
    PROVE  TypeOK'
<1> USE DEF channelVars, memberVars, shareVars, sessionVars
<1>0. TypeOK BY DEF Typed
<1>a. /\ NoPassword \in Secret /\ NoUser \in Users \cup {NoUser}
      /\ chan[u] \in Channel
  BY <1>0 DEF Secret, TypeOK
<1>b. /\ "idle" \in Labels /\ "join_leave" \in Labels /\ "join_enter" \in Labels
      /\ "join_timer" \in Labels /\ "join_fallback" \in Labels
      /\ "kick_timer" \in Labels /\ "quit_timer" \in Labels
      /\ "quit_remove" \in Labels /\ "quit_purge" \in Labels /\ "gone" \in Labels
  BY DEF Labels
<1>c. /\ task[u].ch \in Channel /\ task[u].pw \in Secret
      /\ task[u].old \in Channel /\ task[u].who \in Users \cup {NoUser}
  BY <1>0, TaskFields
<1>d. Resting("idle") \in Task /\ Resting("gone") \in Task
  BY <1>a, <1>b, ChannelFacts, TaskTypes
<1>e. /\ Joining("join_leave", task[u].ch, task[u].pw, General) \in Task
      /\ Joining("join_enter", task[u].ch, task[u].pw, General) \in Task
      /\ Joining("join_timer", task[u].ch, task[u].pw, chan[u]) \in Task
      /\ Joining("join_fallback", task[u].ch, task[u].pw, General) \in Task
  BY <1>a, <1>b, <1>c, ChannelFacts, TaskTypes
<1>f. /\ Leaving("quit_remove", General) \in Task
      /\ Leaving("quit_timer", chan[u]) \in Task
      /\ Leaving("quit_purge", chan[u]) \in Task
  BY <1>a, <1>b, ChannelFacts, TaskTypes
<1>g. Sharing("kick_timer", task[u].ch, NoUser) \in Task
  BY <1>a, <1>b, <1>c, ChannelFacts, TaskTypes
<1>1. CASE CreateJoin(u)
  <2>1. task' \in [Users -> Task] BY <1>0, <1>1, <1>c, BeginJoinType DEF CreateJoin
  <2> QED BY <1>0, <1>1, <2>1 DEF CreateJoin, TypeOK
<1>2. CASE CreateJoinFails(u)
  <2>1. task' \in [Users -> Task] BY <1>0, <1>2, <1>d, GotoType DEF CreateJoinFails
  <2> QED BY <1>0, <1>2, <2>1 DEF CreateJoinFails, TypeOK
<1>3. CASE JoinCleanup(u)
  <2>1. task' \in [Users -> Task] BY <1>0, <1>3, <1>e, GotoType DEF JoinCleanup
  <2>2. CleanupShares(u, task[u].old) BY <1>3 DEF JoinCleanup
  <2> QED BY <1>0, <1>3, <1>c, <2>1, <2>2, CleanupType DEF JoinCleanup, TypeOK
<1>4. CASE JoinLeave(u)
  <2>1. members' \in [Channel -> SUBSET Users] /\ task' \in [Users -> Task]
    BY <1>0, <1>4, <1>e, LeaveCurrentType DEF JoinLeave
  <2> QED BY <1>0, <1>4, <2>1 DEF JoinLeave, TypeOK
<1>5. CASE JoinTimer(u)
  <2>1. task' \in [Users -> Task] BY <1>0, <1>5, <1>e, GotoType DEF JoinTimer
  <2>2. armed' \in [Channel -> BOOLEAN] BY <1>0, <1>5, <1>c, ArmTimerType DEF JoinTimer
  <2> QED BY <1>0, <1>5, <2>1, <2>2 DEF JoinTimer, TypeOK
<1>6. CASE JoinEnter(u)
  <2>1. task' \in [Users -> Task] BY <1>0, <1>6, <1>d, GotoType DEF JoinEnter
  <2>2. Enter(u, task[u].ch) BY <1>6 DEF JoinEnter
  <2> QED BY <1>0, <1>6, <1>c, <2>1, <2>2, EnterType DEF JoinEnter, TypeOK
<1>7. CASE JoinRefused(u)
  <2>1. task' \in [Users -> Task] BY <1>0, <1>7, <1>e, GotoType DEF JoinRefused
  <2>2. invited' \in [Channel -> SUBSET Users] BY <1>0, <1>7, <1>c DEF JoinRefused, TypeOK
  <2> QED BY <1>0, <1>7, <2>1, <2>2 DEF JoinRefused, TypeOK
<1>8. CASE JoinFallback(u)
  <2>1. task' \in [Users -> Task] BY <1>0, <1>8, <1>d, GotoType DEF JoinFallback
  <2>2. Enter(u, General) BY <1>8 DEF JoinFallback
  <2> QED BY <1>0, <1>8, <2>1, <2>2, ChannelFacts, EnterType DEF JoinFallback, TypeOK
<1>9. CASE KickMove(u)
  <2>1. task' \in [Users -> Task] BY <1>0, <1>9, <1>d, <1>g, GotoType DEF KickMove
  <2>2. task[u].who \in Users BY <1>9 DEF Typed, KickHasTarget, KickMove
  <2>3. Enter(task[u].who, General) BY <1>9 DEF KickMove, EnterGeneral
  <2> QED BY <1>0, <1>9, <2>1, <2>2, <2>3, ChannelFacts, EnterType DEF KickMove, TypeOK
<1>10. CASE KickTimer(u)
  <2>1. task' \in [Users -> Task] BY <1>0, <1>10, <1>d, GotoType DEF KickTimer
  <2>2. armed' \in [Channel -> BOOLEAN] BY <1>0, <1>10, <1>c, ArmTimerType DEF KickTimer
  <2> QED BY <1>0, <1>10, <2>1, <2>2 DEF KickTimer, TypeOK
<1>11. CASE ShareInsert(u)
  <2>1. task' \in [Users -> Task] BY <1>0, <1>11, <1>d, GotoType DEF ShareInsert
  <2>2. CASE task[u].ch \in live
    <3>1. /\ sharers' = [sharers EXCEPT ![task[u].ch] = @ \cup {u}]
          /\ viewers' = [viewers EXCEPT ![task[u].ch][u] = {}]
      BY <1>11, <2>2 DEF ShareInsert
    <3>2. sharers' \in [Channel -> SUBSET Users] BY <1>0, <1>c, <3>1 DEF TypeOK
    <3>3. viewers' \in [Channel -> [Users -> SUBSET Users]]
      BY <1>0, <1>c, <3>1, ViewersType
    <3> QED BY <1>0, <1>11, <2>1, <3>2, <3>3 DEF ShareInsert, TypeOK
  <2>3. CASE task[u].ch \notin live
    BY <1>0, <1>11, <2>1, <2>3 DEF ShareInsert, TypeOK
  <2> QED BY <2>2, <2>3
<1>12. CASE ShareRemove(u)
  <2>1. task' \in [Users -> Task] BY <1>0, <1>12, <1>d, GotoType DEF ShareRemove
  <2>2. CASE task[u].ch \in live /\ u \in sharers[task[u].ch]
    <3>1. /\ sharers' = [sharers EXCEPT ![task[u].ch] = @ \ {u}]
          /\ viewers' = [viewers EXCEPT ![task[u].ch][u] = {}]
          /\ watching' = Unwatch(viewers[task[u].ch][u])
      BY <1>12, <2>2 DEF ShareRemove
    <3>2. sharers' \in [Channel -> SUBSET Users] BY <1>0, <1>c, <3>1 DEF TypeOK
    <3>3. viewers' \in [Channel -> [Users -> SUBSET Users]]
      BY <1>0, <1>c, <3>1, ViewersType
    <3>4. watching' \in [Users -> Users \cup {NoUser}] BY <1>0, <3>1, UnwatchType
    <3> QED BY <1>0, <1>12, <2>1, <3>2, <3>3, <3>4 DEF ShareRemove, TypeOK
  <2>3. CASE ~(task[u].ch \in live /\ u \in sharers[task[u].ch])
    BY <1>0, <1>12, <2>1, <2>3 DEF ShareRemove, TypeOK
  <2> QED BY <2>2, <2>3
<1>13. CASE WatchInsert(u)
  <2>1. task' \in [Users -> Task] BY <1>0, <1>13, <1>d, GotoType DEF WatchInsert
  <2>2. viewers' \in [Channel -> [Users -> SUBSET Users]]
    BY <1>0, <1>13, <1>c DEF WatchInsert, TypeOK
  <2> QED BY <1>0, <1>13, <2>1, <2>2 DEF WatchInsert, TypeOK
<1>14. CASE UnwatchRemove(u)
  <2>1. task' \in [Users -> Task] BY <1>0, <1>14, <1>d, GotoType DEF UnwatchRemove
  <2>2. viewers' \in [Channel -> [Users -> SUBSET Users]]
    BY <1>0, <1>14, <1>c DEF UnwatchRemove, TypeOK
  <2> QED BY <1>0, <1>14, <2>1, <2>2 DEF UnwatchRemove, TypeOK
<1>15. CASE QuitLeave(u)
  <2>1. members' \in [Channel -> SUBSET Users] /\ task' \in [Users -> Task]
    BY <1>0, <1>15, <1>f, LeaveCurrentType DEF QuitLeave
  <2> QED BY <1>0, <1>15, <2>1 DEF QuitLeave, TypeOK
<1>16. CASE QuitTimer(u)
  <2>1. task' \in [Users -> Task] BY <1>0, <1>16, <1>f, GotoType DEF QuitTimer
  <2>2. armed' \in [Channel -> BOOLEAN] BY <1>0, <1>16, <1>c, ArmTimerType DEF QuitTimer
  <2> QED BY <1>0, <1>16, <2>1, <2>2 DEF QuitTimer, TypeOK
<1>17. CASE QuitRemove(u)
  <2>1. task' \in [Users -> Task] BY <1>0, <1>17, <1>f, GotoType DEF QuitRemove
  <2> QED BY <1>0, <1>17, <2>1, ChannelFacts DEF QuitRemove, TypeOK
<1>18. CASE QuitPurge(u)
  <2>1. task' \in [Users -> Task] BY <1>0, <1>18, <1>d, GotoType DEF QuitPurge
  <2>2. members' \in [Channel -> SUBSET Users] BY <1>0, <1>18, <1>c DEF QuitPurge, TypeOK
  <2> QED BY <1>0, <1>18, <2>1, <2>2 DEF QuitPurge, TypeOK
<1>19. CASE WatchMark(u)
  <2>1. "watch_insert" \in Labels BY DEF Labels
  <2>2. Sharing("watch_insert", task[u].ch, task[u].who) \in Task
    BY <1>a, <1>c, <2>1, TaskTypes
  <2>3. task' \in [Users -> Task] BY <1>0, <1>19, <2>2, GotoType DEF WatchMark
  <2>4. watching' \in [Users -> Users \cup {NoUser}]
    BY <1>0, <1>19, <1>c DEF WatchMark, TypeOK
  <2> QED BY <1>0, <1>19, <2>3, <2>4 DEF WatchMark, TypeOK
<1> QED BY <1>1, <1>2, <1>3, <1>4, <1>5, <1>6, <1>7, <1>8, <1>9, <1>10, <1>11,
           <1>12, <1>13, <1>14, <1>15, <1>16, <1>17, <1>18, <1>19 DEF Continue

LEMMA TimerType ==
    ASSUME TypeOK, NEW c \in Channel, TimerFires(c)
    PROVE  TypeOK'
<1> USE DEF channelVars, memberVars, shareVars, sessionVars
<1>1. NoPassword \in Secret BY DEF Secret
<1>2. CASE Deletable(c)
  <2> DEFINE none == [u \in Users |-> {}]
  <2>a. none \in [Users -> SUBSET Users] OBVIOUS
  <2>b. viewers' = [viewers EXCEPT ![c] = none] BY <1>2 DEF TimerFires
  <2> HIDE DEF none
  <2>1. viewers' \in [Channel -> [Users -> SUBSET Users]]
    BY <2>a, <2>b DEF TypeOK
  <2>2. secret' = [secret EXCEPT ![c] = NoPassword] BY <1>2 DEF TimerFires
  <2>3. secret' \in [Channel -> Secret] BY <1>1, <2>2 DEF TypeOK
  <2>4. /\ armed' \in [Channel -> BOOLEAN] /\ live' \subseteq Channel
        /\ creator' \in [Channel -> Users \cup {NoUser}]
        /\ members' \in [Channel -> SUBSET Users] /\ invited' \in [Channel -> SUBSET Users]
        /\ sharers' \in [Channel -> SUBSET Users]
    BY <1>2 DEF TimerFires, TypeOK
  <2>5. UNCHANGED <<name, nextChannel, sharing, watching, sessionVars, task>>
    BY DEF TimerFires
  <2> QED BY <2>1, <2>3, <2>4, <2>5 DEF TypeOK
<1>3. CASE ~Deletable(c)
  BY <1>3 DEF TimerFires, TypeOK
<1> QED BY <1>2, <1>3

\* A step of one task leaves the other tasks where they are, and only a kick
\* gets to the point where a target is moved.
LEMMA RequestTask ==
    ASSUME Typed, NEW u \in Users, Request(u)
    PROVE  /\ \A v \in Users \ {u} : task'[v] = task[v]
           /\ task[u].at \in {"unborn", "idle"}
           /\ task'[u].at = "kick_move" => task'[u].who \in Users
<1>1. TypeOK BY DEF Typed
<1> USE DEF Goto, Ready, Resting, Joining, Leaving, Sharing, At
<1>2. CASE Connect(u) BY <1>1, <1>2 DEF Connect, TypeOK
<1>3. ASSUME NEW c \in Channel, NEW p \in Secret,
             JoinRequest(u, c, p) \/ SetChannelPassword(u, c, p)
      PROVE  /\ \A v \in Users \ {u} : task'[v] = task[v]
             /\ task[u].at = "idle" /\ task'[u].at # "kick_move"
  BY <1>1, <1>3 DEF JoinRequest, SetChannelPassword, BeginJoin, TypeOK
<1>4. ASSUME NEW n \in Names, NEW p \in Secret, CreateChannel(u, n, p)
      PROVE  /\ \A v \in Users \ {u} : task'[v] = task[v]
             /\ task[u].at = "idle" /\ task'[u].at # "kick_move"
  BY <1>1, <1>4 DEF CreateChannel, TypeOK
<1>5. ASSUME NEW c \in Channel, NEW t \in Users,
             SendInvite(u, c, t) \/ DeclineInvite(u, c)
      PROVE  /\ \A v \in Users \ {u} : task'[v] = task[v]
             /\ task[u].at = "idle" /\ task'[u].at # "kick_move"
  BY <1>1, <1>5 DEF SendInvite, DeclineInvite, TypeOK
<1>6. ASSUME NEW c \in Channel, NEW t \in Users, KickUser(u, c, t)
      PROVE  /\ \A v \in Users \ {u} : task'[v] = task[v]
             /\ task[u].at = "idle"
             /\ task'[u].at = "kick_move" => task'[u].who \in Users
  BY <1>1, <1>6 DEF KickUser, TypeOK
<1>7. CASE StartShare(u) \/ StopShare(u) \/ StopWatching(u) \/ Quit(u)
  BY <1>1, <1>7 DEF StartShare, StopShare, StopWatching, Quit, TypeOK
<1>8. ASSUME NEW t \in Users, WatchShare(u, t)
      PROVE  /\ \A v \in Users \ {u} : task'[v] = task[v]
             /\ task[u].at = "idle" /\ task'[u].at # "kick_move"
  BY <1>1, <1>8 DEF WatchShare, TypeOK
<1>9. CASE \E c \in Channel : DeclineInvite(u, c)
  BY <1>1, <1>9 DEF DeclineInvite, TypeOK
<1> HIDE DEF Goto, Ready, Resting, Joining, Leaving, Sharing, At
<1> QED BY <1>2, <1>3, <1>4, <1>5, <1>6, <1>7, <1>8, <1>9 DEF Request

LEMMA ContinueTask ==
    ASSUME Typed, NEW u \in Users, Continue(u)
    PROVE  /\ \A v \in Users \ {u} : task'[v] = task[v]
           /\ task[u].at \notin {"unborn", "idle", "gone"}
           /\ task'[u].at # "kick_move"
<1>1. TypeOK BY DEF Typed
<1> USE DEF Goto, Resting, Joining, Leaving, Sharing, At
<1>2. CASE CreateJoin(u) \/ CreateJoinFails(u)
  BY <1>1, <1>2 DEF CreateJoin, CreateJoinFails, BeginJoin, TypeOK
<1>3. CASE JoinCleanup(u) \/ JoinTimer(u) \/ JoinEnter(u) \/ JoinRefused(u)
           \/ JoinFallback(u)
  BY <1>1, <1>3 DEF JoinCleanup, JoinTimer, JoinEnter, JoinRefused, JoinFallback, TypeOK
<1>4. CASE JoinLeave(u) \/ QuitLeave(u)
  BY <1>1, <1>4 DEF JoinLeave, QuitLeave, LeaveCurrent, TypeOK
<1>5. CASE KickMove(u) \/ KickTimer(u) BY <1>1, <1>5 DEF KickMove, KickTimer, TypeOK
<1>6. CASE ShareInsert(u) \/ ShareRemove(u) \/ WatchMark(u) \/ WatchInsert(u)
           \/ UnwatchRemove(u)
  BY <1>1, <1>6 DEF ShareInsert, ShareRemove, WatchMark, WatchInsert, UnwatchRemove, TypeOK
<1>7. CASE QuitTimer(u) \/ QuitRemove(u) \/ QuitPurge(u)
  BY <1>1, <1>7 DEF QuitTimer, QuitRemove, QuitPurge, TypeOK
<1> HIDE DEF Goto, Resting, Joining, Leaving, Sharing, At
<1> QED BY <1>2, <1>3, <1>4, <1>5, <1>6, <1>7 DEF Continue

LEMMA TypedInductive == Typed /\ [Next]_vars => Typed'
<1> SUFFICES ASSUME Typed, [Next]_vars PROVE Typed' OBVIOUS
<1>0. TypeOK BY DEF Typed
<1>1. ASSUME NEW u \in Users, Request(u) PROVE Typed'
  <2>1. TypeOK' BY <1>0, <1>1, RequestType
  <2>2. KickHasTarget' BY <1>1, RequestTask DEF Typed, KickHasTarget
  <2> QED BY <2>1, <2>2 DEF Typed
<1>2. ASSUME NEW u \in Users, Continue(u) PROVE Typed'
  <2>1. TypeOK' BY <1>2, ContinueType
  <2>2. KickHasTarget' BY <1>2, ContinueTask DEF Typed, KickHasTarget
  <2> QED BY <2>1, <2>2 DEF Typed
<1>3. ASSUME NEW c \in Channel, TimerFires(c) PROVE Typed'
  <2>1. TypeOK' BY <1>0, <1>3, TimerType
  <2>2. KickHasTarget' BY <1>3 DEF Typed, KickHasTarget, TimerFires
  <2> QED BY <2>1, <2>2 DEF Typed
<1>4. CASE UNCHANGED vars
  BY <1>4 DEF Typed, KickHasTarget, TypeOK, vars, channelVars, memberVars, shareVars,
              sessionVars
<1> QED BY <1>1, <1>2, <1>3, <1>4 DEF Next

LEMMA InitTyped == Init => Typed
<1>1. Init => KickHasTarget BY DEF Init, KickHasTarget, Resting, At
<1> QED BY <1>1, InitType DEF Typed

\* Every reachable state is well typed.
THEOREM TypeCorrect == Spec => []TypeOK
<1>1. Typed => TypeOK BY DEF Typed
<1> QED BY <1>1, InitTyped, TypedInductive, PTL DEF Spec

----------------------------------------------------------------------------
(* Who enters a channel: the capacity and the authorization of a join.     *)

\* u is the one whose join_channel just passed the checks for c.
Enters(u, c) ==
    /\ task[u].at = "join_enter" /\ task[u].ch = c
    /\ RecheckJoin(u, c, task[u].pw)
    /\ members'[c] = members[c] \cup {u}

\* Taking a user out of one channel lets no other grow.
LEMMA RemovalShrinks ==
    ASSUME TypeOK, NEW c \in Channel, NEW d, NEW u,
           members' = [members EXCEPT ![d] = @ \ {u}]
    PROVE  members'[c] \subseteq members[c]
<1>2. CASE c = d BY <1>2 DEF TypeOK
<1>3. CASE c # d BY <1>3 DEF TypeOK
<1> QED BY <1>2, <1>3

\* General apart, a channel gains a member only through the checks of
\* join_channel, and one at a time.
LEMMA MembersStep ==
    ASSUME Typed, [Next]_vars, NEW c \in Channel \ {General}
    PROVE  members'[c] \subseteq members[c] \/ \E u \in Users : Enters(u, c)
<1>0. TypeOK BY DEF Typed
<1> USE DEF memberVars
<1> DEFINE Shrinks == members'[c] \subseteq members[c]
<1>1. ASSUME NEW u \in Users, Request(u) PROVE Shrinks
  <2>1. ASSUME NEW d \in Channel, NEW t \in Users, KickUser(u, d, t) PROVE Shrinks
    BY <1>0, <2>1 DEF KickUser, TypeOK
  <2>2. ASSUME NEW d \in Channel, NEW t \in Users, SendInvite(u, d, t) PROVE Shrinks
    BY <2>2 DEF SendInvite
  <2>3. ASSUME NEW d \in Channel, DeclineInvite(u, d) PROVE Shrinks
    BY <2>3 DEF DeclineInvite
  <2>4. ASSUME NEW d \in Channel, NEW p \in Secret,
               JoinRequest(u, d, p) \/ SetChannelPassword(u, d, p)
        PROVE  Shrinks
    BY <2>4 DEF JoinRequest, SetChannelPassword
  <2>5. ASSUME NEW n \in Names, NEW p \in Secret, CreateChannel(u, n, p) PROVE Shrinks
    BY <2>5 DEF CreateChannel
  <2>6. ASSUME NEW t \in Users, WatchShare(u, t) PROVE Shrinks
    BY <2>6 DEF WatchShare
  <2>7. CASE Connect(u) \/ StartShare(u) \/ StopShare(u) \/ StopWatching(u) \/ Quit(u)
    BY <2>7 DEF Connect, StartShare, StopShare, StopWatching, Quit
  <2> QED BY <1>1, <2>1, <2>2, <2>3, <2>4, <2>5, <2>6, <2>7 DEF Request
<1>2. ASSUME NEW u \in Users, Continue(u) PROVE Shrinks \/ Enters(u, c)
  <2>1. CASE JoinEnter(u)
    BY <1>0, <2>1, TaskFields DEF JoinEnter, Enter, Enters, TypeOK
  <2>2. CASE JoinFallback(u) \/ KickMove(u)
    BY <1>0, <2>2, ChannelFacts DEF JoinFallback, KickMove, EnterGeneral, Enter, TypeOK
  <2>3. CASE JoinLeave(u) \/ QuitLeave(u)
    <3>1. members' = [members EXCEPT ![chan[u]] = @ \ {u}] \/ members' = members
      BY <2>3 DEF JoinLeave, QuitLeave, LeaveCurrent
    <3> QED BY <1>0, <3>1, RemovalShrinks
  <2>4. CASE QuitPurge(u)
    <3>1. members' = [members EXCEPT ![task[u].old] = @ \ {u}] \/ members' = members
      BY <2>4 DEF QuitPurge
    <3> QED BY <1>0, <3>1, RemovalShrinks
  <2>5. CASE CreateJoin(u) \/ CreateJoinFails(u) \/ JoinCleanup(u) \/ JoinTimer(u)
             \/ JoinRefused(u) \/ KickTimer(u)
    BY <2>5 DEF CreateJoin, CreateJoinFails, JoinCleanup, JoinTimer, JoinRefused, KickTimer
  <2>6. CASE ShareInsert(u) \/ ShareRemove(u) \/ WatchMark(u) \/ WatchInsert(u)
           \/ UnwatchRemove(u)
             \/ QuitTimer(u) \/ QuitRemove(u)
    BY <2>6 DEF ShareInsert, ShareRemove, WatchMark, WatchInsert, UnwatchRemove,
                QuitTimer, QuitRemove
  <2> QED BY <1>2, <2>1, <2>2, <2>3, <2>4, <2>5, <2>6 DEF Continue
<1>3. ASSUME NEW d \in Channel, TimerFires(d) PROVE Shrinks
  BY <1>0, <1>3 DEF TimerFires, TypeOK
<1>4. CASE UNCHANGED vars BY <1>4 DEF vars
<1> QED BY <1>1, <1>2, <1>3, <1>4 DEF Next

\* A channel with a limit is one of channels.json.
LEMMA LimitedChannel ==
    ASSUME NEW c \in Channel
    PROVE  /\ MaxUsersOf(c) \in Nat
           /\ MaxUsersOf(c) > 0 => c \in 1..NumPersistent /\ c # General
BY DEF MaxUsersOf, General

\* The capacity of CapacityRespected without its premise on live: inductive
\* together with the types.
WithinCapacity ==
    \A c \in Channel : MaxUsersOf(c) > 0 => Cardinality(members[c]) <= MaxUsersOf(c)

LEMMA InitCapacity == Init => WithinCapacity
BY FS_EmptySet, LimitedChannel DEF Init, WithinCapacity

LEMMA CapacityInductive == Typed /\ WithinCapacity /\ [Next]_vars => WithinCapacity'
<1> SUFFICES ASSUME Typed, WithinCapacity, [Next]_vars,
                    NEW c \in Channel, MaxUsersOf(c) > 0
             PROVE  Cardinality(members'[c]) <= MaxUsersOf(c)
  BY DEF WithinCapacity, MaxUsersOf
<1>1. c \in Channel \ {General} /\ MaxUsersOf(c) \in Nat BY LimitedChannel
<1>2. IsFiniteSet(members[c])
  BY FS_Subset DEF Typed, TypeOK
<1>3. Cardinality(members[c]) <= MaxUsersOf(c) /\ Cardinality(members[c]) \in Nat
  BY <1>2, FS_CardinalityType DEF WithinCapacity
<1>4. CASE members'[c] \subseteq members[c]
  <2>1. Cardinality(members'[c]) \in Nat /\ Cardinality(members'[c]) <= Cardinality(members[c])
    BY <1>2, <1>4, FS_Subset, FS_CardinalityType
  <2> QED BY <1>1, <1>3, <2>1
<1>5. ASSUME NEW u \in Users, Enters(u, c)
      PROVE  Cardinality(members'[c]) <= MaxUsersOf(c)
  <2>1. Cardinality(members[c]) < MaxUsersOf(c) BY <1>5 DEF Enters, RecheckJoin, HasRoom
  <2>2. members'[c] = members[c] \cup {u} BY <1>5 DEF Enters
  <2>3. Cardinality(members[c] \cup {u}) = IF u \in members[c] THEN Cardinality(members[c])
                                           ELSE Cardinality(members[c]) + 1
    BY <1>2, FS_AddElement
  <2> QED BY <1>1, <1>3, <2>1, <2>2, <2>3
<1> QED BY <1>1, <1>4, <1>5, MembersStep

\* A limited channel never holds more than max_users members, however many
\* joins were validated against its last free place.
THEOREM CapacityAlwaysRespected == Spec => []CapacityRespected
<1>1. Typed /\ WithinCapacity => CapacityRespected
  BY DEF Typed, TypeOK, WithinCapacity, CapacityRespected
<1> QED BY <1>1, InitTyped, TypedInductive, InitCapacity, CapacityInductive, PTL DEF Spec

\* Nobody enters a channel other than General without an invitation or the
\* password of that instant.
THEOREM EntryAlwaysAuthorized == Spec => EntryAuthorized
<1>1. ASSUME Typed, [Next]_vars, NEW c \in live \ {General}, NEW u \in Users,
             u \in members'[c] \ members[c]
      PROVE  \/ secret[c] = NoPassword
             \/ u \in invited[c]
             \/ task[u].at = "join_enter" /\ task[u].ch = c /\ task[u].pw = secret[c]
  <2>1. c \in Channel \ {General} BY <1>1 DEF Typed, TypeOK
  <2>2. PICK v \in Users : Enters(v, c) BY <1>1, <2>1, MembersStep
  <2>3. v = u BY <1>1, <2>2 DEF Enters
  <2> QED BY <2>2, <2>3 DEF Enters, RecheckJoin, PasswordOk
<1>2. Typed /\ [Next]_vars =>
        [\A c \in live \ {General}, u \in Users :
           u \in members'[c] \ members[c] =>
              \/ secret[c] = NoPassword
              \/ u \in invited[c]
              \/ task[u].at = "join_enter" /\ task[u].ch = c /\ task[u].pw = secret[c]]_vars
  BY <1>1
<1> QED BY <1>2, InitTyped, TypedInductive, PTL DEF Spec, EntryAuthorized

----------------------------------------------------------------------------
(* The channel registry.                                                   *)

\* Only a creation adds a channel and only a delete timer removes one.
LEMMA LiveStep ==
    ASSUME Typed, [Next]_vars
    PROVE  \/ /\ live' = live /\ name' = name /\ nextChannel' = nextChannel
           \/ \E u \in Users, n \in Names, p \in Secret : CreateChannel(u, n, p)
           \/ \E c \in live : /\ live' = live \ {c} /\ name' = name
                              /\ nextChannel' = nextChannel
                              /\ Deletable(c)
<1> USE DEF channelVars
<1> DEFINE Same == live' = live /\ name' = name /\ nextChannel' = nextChannel
<1>1. ASSUME NEW u \in Users, Request(u)
      PROVE  Same \/ \E n \in Names, p \in Secret : CreateChannel(u, n, p)
  <2>1. ASSUME NEW d \in Channel, NEW t \in Users,
               KickUser(u, d, t) \/ SendInvite(u, d, t) \/ WatchShare(u, t)
        PROVE  Same
    BY <2>1 DEF KickUser, SendInvite, WatchShare
  <2>2. ASSUME NEW d \in Channel, NEW p \in Secret,
               JoinRequest(u, d, p) \/ SetChannelPassword(u, d, p) \/ DeclineInvite(u, d)
        PROVE  Same
    BY <2>2 DEF JoinRequest, SetChannelPassword, DeclineInvite
  <2>3. CASE Connect(u) \/ StartShare(u) \/ StopShare(u) \/ StopWatching(u) \/ Quit(u)
    BY <2>3 DEF Connect, StartShare, StopShare, StopWatching, Quit
  <2>4. NoPassword \in Secret /\ General \in Channel BY ChannelFacts DEF Secret
  <2>5. ASSUME NEW t \in Users, WatchShare(u, t) PROVE Same
    BY <2>1, <2>4, <2>5
  <2>6. ASSUME NEW d \in Channel, DeclineInvite(u, d) PROVE Same
    BY <2>2, <2>4, <2>6
  <2> QED BY <1>1, <2>1, <2>2, <2>3, <2>5, <2>6 DEF Request
<1>2. ASSUME NEW u \in Users, Continue(u) PROVE Same
  <2>1. CASE CreateJoin(u) \/ CreateJoinFails(u) \/ JoinCleanup(u) \/ JoinLeave(u)
             \/ JoinTimer(u) \/ JoinEnter(u) \/ JoinRefused(u) \/ JoinFallback(u)
    BY <2>1 DEF CreateJoin, CreateJoinFails, JoinCleanup, JoinLeave, JoinTimer,
                JoinEnter, JoinRefused, JoinFallback
  <2>2. CASE KickMove(u) \/ KickTimer(u) \/ ShareInsert(u) \/ ShareRemove(u)
             \/ WatchMark(u) \/ WatchInsert(u) \/ UnwatchRemove(u)
    BY <2>2 DEF KickMove, KickTimer, ShareInsert, ShareRemove, WatchMark,
                WatchInsert, UnwatchRemove
  <2>3. CASE QuitLeave(u) \/ QuitTimer(u) \/ QuitRemove(u) \/ QuitPurge(u)
    BY <2>3 DEF QuitLeave, QuitTimer, QuitRemove, QuitPurge
  <2> QED BY <1>2, <2>1, <2>2, <2>3 DEF Continue
<1>3. ASSUME NEW c \in Channel, TimerFires(c)
      PROVE  Same \/ \E d \in live : /\ live' = live \ {d} /\ name' = name
                                     /\ nextChannel' = nextChannel /\ Deletable(d)
  BY <1>3 DEF TimerFires
<1>4. CASE UNCHANGED vars BY <1>4 DEF vars
<1> QED BY <1>1, <1>2, <1>3, <1>4 DEF Next

\* What channels.json lists, and General, is there from the start and for good.
PermanentLive == 0..NumPersistent \subseteq live

LEMMA InitRegistry == Init => PermanentLive /\ RegistryOk
<1> SUFFICES ASSUME Init PROVE PermanentLive /\ RegistryOk OBVIOUS
<1>1. UserChannels = {} BY DEF Init, UserChannels, General
<1>2. Cardinality(UserChannels) <= MaxChannels BY <1>1, FS_EmptySet
<1>3. \A c, d \in live : name[c] = name[d] => c = d BY ChannelFacts DEF Init
<1> QED BY <1>2, <1>3 DEF Init, RegistryOk, PermanentLive

LEMMA RegistryInductive ==
    Typed /\ PermanentLive /\ RegistryOk /\ [Next]_vars => PermanentLive' /\ RegistryOk'
<1> SUFFICES ASSUME Typed, PermanentLive, RegistryOk, [Next]_vars
             PROVE  PermanentLive' /\ RegistryOk'
  OBVIOUS
<1>0. TypeOK BY DEF Typed
<1>1. IsFiniteSet(UserChannels) /\ Cardinality(UserChannels) \in Nat
  <2>1. UserChannels \subseteq Channel BY <1>0 DEF TypeOK, UserChannels
  <2>2. IsFiniteSet(Channel) BY FS_Interval DEF Channel
  <2> QED BY <2>1, <2>2, FS_Subset, FS_CardinalityType
<1>2. CASE live' = live /\ name' = name /\ nextChannel' = nextChannel
  BY <1>2 DEF PermanentLive, RegistryOk, UserChannels
<1>3. ASSUME NEW u \in Users, NEW n \in Names, NEW p \in Secret, CreateChannel(u, n, p)
      PROVE  PermanentLive' /\ RegistryOk'
  <2>1. /\ live' = live \cup {nextChannel} /\ nextChannel \in Channel
        /\ name' = [name EXCEPT ![nextChannel] = n]
        /\ nextChannel' = nextChannel + 1 /\ nextChannel \in Nat
        /\ nextChannel \notin live
    BY <1>0, <1>3 DEF CreateChannel, NextId, TypeOK, RegistryOk, Channel
  <2>2. Cardinality(UserChannels) < MaxChannels /\ \A c \in live : name[c] # n
    BY <1>3 DEF CreateChannel, MayCreate
  <2>3. UserChannels' \subseteq UserChannels \cup {nextChannel}
    BY <2>1 DEF UserChannels
  <2>4. /\ IsFiniteSet(UserChannels \cup {nextChannel})
        /\ Cardinality(UserChannels \cup {nextChannel}) =
             IF nextChannel \in UserChannels THEN Cardinality(UserChannels)
             ELSE Cardinality(UserChannels) + 1
    BY <1>1, FS_AddElement
  <2>5. Cardinality(UserChannels \cup {nextChannel}) <= MaxChannels
    BY <1>1, <2>2, <2>4
  <2>6. /\ Cardinality(UserChannels') \in Nat
        /\ Cardinality(UserChannels') <= Cardinality(UserChannels \cup {nextChannel})
    BY <2>3, <2>4, FS_Subset, FS_CardinalityType
  <2>7. Cardinality(UserChannels') <= MaxChannels
    BY <2>4, <2>5, <2>6, FS_CardinalityType
  <2>8. \A c, d \in live' : name'[c] = name'[d] => c = d
    BY <1>0, <2>1, <2>2 DEF RegistryOk, TypeOK
  <2>9. live' \subseteq 0..(nextChannel' - 1)
    BY <2>1 DEF RegistryOk
  <2>10. PermanentLive' BY <2>1 DEF PermanentLive
  <2> QED BY <2>7, <2>8, <2>9, <2>10 DEF RegistryOk
<1>4. ASSUME NEW c \in live, live' = live \ {c}, name' = name,
             nextChannel' = nextChannel, Deletable(c)
      PROVE  PermanentLive' /\ RegistryOk'
  <2>1. UserChannels' \subseteq UserChannels BY <1>4 DEF UserChannels
  <2>2. Cardinality(UserChannels') <= Cardinality(UserChannels)
        /\ Cardinality(UserChannels') \in Nat
    BY <1>1, <2>1, FS_Subset, FS_CardinalityType
  <2>3. Cardinality(UserChannels') <= MaxChannels BY <1>1, <2>2 DEF RegistryOk
  <2>4. PermanentLive' BY <1>4 DEF PermanentLive, Deletable, General
  <2> QED BY <1>4, <2>3, <2>4 DEF RegistryOk
<1> QED BY <1>2, <1>3, <1>4, LiveStep

\* User-created channels stay within max_channels and all names differ,
\* whatever the creations that race.
THEOREM RegistryAlwaysOk == Spec => []RegistryOk
BY InitTyped, TypedInductive, InitRegistry, RegistryInductive, PTL DEF Spec

\* Only an empty, user-created channel is ever deleted.
THEOREM DeletionsOnlyOfEmpty == Spec => DeletedOnlyEmpty
<1>1. ASSUME Typed, [Next]_vars, NEW c \in live \ live'
      PROVE  c \in Created /\ members[c] = {}
  <2>1. Deletable(c) BY <1>1, LiveStep DEF CreateChannel
  <2>2. c \in Channel BY <1>1 DEF Typed, TypeOK
  <2> QED BY <2>1, <2>2 DEF Deletable, Created, Channel, General
<1>2. Typed /\ [Next]_vars => [\A c \in live \ live' : c \in Created /\ members[c] = {}]_vars
  BY <1>1
<1> QED BY <1>2, InitTyped, TypedInductive, PTL DEF Spec, DeletedOnlyEmpty

----------------------------------------------------------------------------
(* No connected user is lost.                                              *)

\* A task that has begun and not reached the end of its clean-up has a session.
HasSession ==
    \A u \in Users : task[u].at \notin {"unborn", "gone", "quit_purge"} => u \in online

\* The inductive invariant.  General must exist for the fallbacks to lead
\* somewhere, and a join writes the new channel into the session only if there
\* is one.
Homed == PermanentLive /\ HasSession /\ HomeChannelHasUser

\* HomeChannelHasUser for one user.
AtHome(u) == u \in online /\ chan[u] \in live /\ u \in members[chan[u]]

LEMMA InitHomed == Init => Homed
<1> SUFFICES ASSUME Init PROVE Homed OBVIOUS
<1>1. \A u \in Users : task[u].at = "unborn" BY DEF Init, Resting, At
<1> QED BY <1>1, ChannelFacts DEF Init, Homed, PermanentLive, HasSession,
           HomeChannelHasUser, Settled

\* A request leaves every other settled user at home, unless it is a kick of
\* that user, and its own sender too, unless it moves on to leave the channel.
LEMMA RequestHomed ==
    ASSUME Typed, Homed, NEW u \in Users, Request(u)
    PROVE  HasSession' /\ HomeChannelHasUser'
<1> USE DEF memberVars, sessionVars
<1>0. TypeOK BY DEF Typed
<1>1. \A v \in Users \ {u} : task'[v] = task[v] BY RequestTask
<1>2. live \subseteq live'
  <2> USE DEF channelVars
  <2>1. ASSUME NEW n \in Names, NEW p \in Secret, CreateChannel(u, n, p)
        PROVE  live \subseteq live'
    BY <2>1 DEF CreateChannel
  <2>2. ASSUME NEW d \in Channel, NEW t \in Users,
               KickUser(u, d, t) \/ SendInvite(u, d, t)
        PROVE  live \subseteq live'
    BY <2>2 DEF KickUser, SendInvite
  <2>3. ASSUME NEW d \in Channel, NEW p \in Secret,
               JoinRequest(u, d, p) \/ SetChannelPassword(u, d, p)
        PROVE  live \subseteq live'
    BY <2>3 DEF JoinRequest, SetChannelPassword
  <2>4. ASSUME NEW d \in Channel, DeclineInvite(u, d) PROVE live \subseteq live'
    BY <2>4 DEF DeclineInvite
  <2>5. ASSUME NEW t \in Users, WatchShare(u, t) PROVE live \subseteq live'
    BY <2>5 DEF WatchShare
  <2>6. CASE Connect(u) \/ StartShare(u) \/ StopShare(u) \/ StopWatching(u) \/ Quit(u)
    BY <2>6 DEF Connect, StartShare, StopShare, StopWatching, Quit
  <2> QED BY <2>1, <2>2, <2>3, <2>4, <2>5, <2>6 DEF Request
<1>3. CASE \E c \in Channel, t \in Users : KickUser(u, c, t)
  <2>1. PICK c \in Channel, t \in Users : KickUser(u, c, t) BY <1>3
  <2>2. online' = online /\ chan' = chan /\ members' = [members EXCEPT ![c] = @ \ {t}]
        /\ task[u].at = "idle" /\ u # t
    BY <2>1 DEF KickUser, Ready
  <2>3. task'[u].at \in {"kick_move", "idle"}
    BY <1>0, <2>1 DEF KickUser, Goto, Resting, At, TypeOK
  <2>4. t \in online => task'[u].at = "kick_move" /\ task'[u].who = t
    BY <1>0, <2>1 DEF KickUser, Goto, At, TypeOK
  <2>5. HasSession' BY <1>1, <2>2, <2>3 DEF Homed, HasSession
  <2>6. ASSUME NEW v \in Users, Settled(v)', ~BeingMoved(v)' PROVE AtHome(v)'
    <3>1. Settled(v) BY <1>1, <2>2, <2>6 DEF Settled
    <3>2. ~BeingMoved(v) BY <1>1, <2>2, <2>6 DEF BeingMoved
    <3>3. AtHome(v) BY <3>1, <3>2 DEF Homed, HomeChannelHasUser, AtHome
    <3>4. v # t BY <2>4, <2>6, <3>3 DEF BeingMoved, AtHome
    <3> QED BY <1>0, <1>2, <2>2, <3>3, <3>4 DEF AtHome, TypeOK
  <2> QED BY <2>5, <2>6 DEF HomeChannelHasUser, AtHome
<1>4. CASE ~\E c \in Channel, t \in Users : KickUser(u, c, t)
  <2>1. members' = members /\ chan' = chan /\ online \subseteq online'
    <3>1. ASSUME NEW n \in Names, NEW p \in Secret, CreateChannel(u, n, p)
          PROVE  members' = members /\ chan' = chan /\ online' = online
      BY <3>1 DEF CreateChannel
    <3>2. ASSUME NEW d \in Channel, NEW t \in Users, SendInvite(u, d, t)
          PROVE  members' = members /\ chan' = chan /\ online' = online
      BY <3>2 DEF SendInvite
    <3>3. ASSUME NEW d \in Channel, NEW p \in Secret,
                 JoinRequest(u, d, p) \/ SetChannelPassword(u, d, p)
          PROVE  members' = members /\ chan' = chan /\ online' = online
      BY <3>3 DEF JoinRequest, SetChannelPassword
    <3>4. ASSUME NEW d \in Channel, DeclineInvite(u, d)
          PROVE  members' = members /\ chan' = chan /\ online' = online
      BY <3>4 DEF DeclineInvite
    <3>5. ASSUME NEW t \in Users, WatchShare(u, t)
          PROVE  members' = members /\ chan' = chan /\ online' = online
      BY <3>5 DEF WatchShare
    <3>6. CASE Connect(u) \/ StartShare(u) \/ StopShare(u) \/ StopWatching(u) \/ Quit(u)
      BY <3>6 DEF Connect, StartShare, StopShare, StopWatching, Quit
    <3> QED BY <1>4, <3>1, <3>2, <3>3, <3>4, <3>5, <3>6 DEF Request
  <2>2. task[u].at = "unborn" => Connect(u)
    BY DEF Request, JoinRequest, CreateChannel, SetChannelPassword, SendInvite,
           DeclineInvite, KickUser, StartShare, StopShare, WatchShare, StopWatching,
           Quit, Ready
  <2>3. Connect(u) => u \in online' /\ ~Settled(u)'
    BY <1>0 DEF Connect, Goto, Joining, At, Settled, TypeOK
  <2>4. task[u].at = "unborn" \/ task[u].at = "idle" BY RequestTask
  <2>5. u \in online'
    BY <2>1, <2>2, <2>3, <2>4 DEF Homed, HasSession
  <2>6. HasSession' BY <1>1, <2>1, <2>5 DEF Homed, HasSession
  <2>7. ASSUME NEW v \in Users, Settled(v)', ~BeingMoved(v)' PROVE AtHome(v)'
    <3>1. Settled(v) BY <1>1, <2>2, <2>3, <2>4, <2>7 DEF Settled
    <3>2. ~BeingMoved(v) BY <1>1, <2>4, <2>7 DEF BeingMoved
    <3>3. AtHome(v) BY <3>1, <3>2 DEF Homed, HomeChannelHasUser, AtHome
    <3> QED BY <1>2, <2>1, <3>3 DEF AtHome
  <2> QED BY <2>6, <2>7 DEF HomeChannelHasUser, AtHome
<1> QED BY <1>3, <1>4

\* Where the sender of a handled step is afterwards: settled only if it was
\* before or if join_channel just put it into a channel.
LEMMA ContinueSettled ==
    ASSUME Typed, NEW u \in Users, Continue(u)
    PROVE  /\ Settled(u)' => Settled(u) \/ JoinEnter(u) \/ JoinFallback(u)
           /\ task'[u].at \notin {"unborn", "gone", "quit_purge"} =>
                ~QuitRemove(u) /\ task[u].at # "quit_purge"
<1>0. TypeOK BY DEF Typed
<1> USE DEF Goto, Resting, Joining, Leaving, Sharing, At, Settled
<1>1. CASE CreateJoin(u) \/ CreateJoinFails(u)
  BY <1>0, <1>1 DEF CreateJoin, CreateJoinFails, BeginJoin, QuitRemove, TypeOK
<1>2. CASE JoinCleanup(u) \/ JoinTimer(u) \/ JoinRefused(u) \/ QuitTimer(u)
  BY <1>0, <1>2 DEF JoinCleanup, JoinTimer, JoinRefused, QuitTimer, QuitRemove, TypeOK
<1>3. CASE JoinLeave(u) \/ QuitLeave(u)
  BY <1>0, <1>3 DEF JoinLeave, QuitLeave, LeaveCurrent, QuitRemove, TypeOK
<1>4. CASE JoinEnter(u) \/ JoinFallback(u)
  BY <1>4 DEF JoinEnter, JoinFallback, QuitRemove
<1>5. CASE KickMove(u) \/ KickTimer(u)
  BY <1>5 DEF KickMove, KickTimer, QuitRemove
<1>6. CASE ShareInsert(u) \/ ShareRemove(u) \/ WatchMark(u) \/ WatchInsert(u)
           \/ UnwatchRemove(u)
  BY <1>6 DEF ShareInsert, ShareRemove, WatchMark, WatchInsert, UnwatchRemove, QuitRemove
<1>7. CASE QuitRemove(u) \/ QuitPurge(u)
  BY <1>0, <1>7 DEF QuitRemove, QuitPurge, TypeOK
<1> HIDE DEF Goto, Resting, Joining, Leaving, Sharing, At, Settled
<1> QED BY <1>1, <1>2, <1>3, <1>4, <1>5, <1>6, <1>7 DEF Continue

\* Taking one user out of a channel takes nobody else out of any.
LEMMA RemovalOfOther ==
    ASSUME TypeOK, NEW u, NEW v \in Users, v # u, NEW c \in Channel, v \in members[c],
           \/ members' = members
           \/ \E d \in Channel : members' = [members EXCEPT ![d] = @ \ {u}]
    PROVE  v \in members'[c]
<1>1. CASE members' = members BY <1>1
<1>2. ASSUME NEW d \in Channel, members' = [members EXCEPT ![d] = @ \ {u}]
      PROVE  v \in members'[c]
  <2>1. CASE c = d BY <1>2, <2>1 DEF TypeOK
  <2>2. CASE c # d BY <1>2, <2>2 DEF TypeOK
  <2> QED BY <2>1, <2>2
<1> QED BY <1>1, <1>2

LEMMA ContinueHomed ==
    ASSUME Typed, Homed, NEW u \in Users, Continue(u)
    PROVE  HasSession' /\ HomeChannelHasUser'
<1> USE DEF memberVars, sessionVars
<1>0. TypeOK BY DEF Typed
<1>1. \A v \in Users \ {u} : task'[v] = task[v] BY ContinueTask
<1>2. live' = live
  <2> USE DEF channelVars
  <2>1. CASE CreateJoin(u) \/ CreateJoinFails(u) \/ JoinCleanup(u) \/ JoinLeave(u)
             \/ JoinTimer(u) \/ JoinEnter(u) \/ JoinRefused(u) \/ JoinFallback(u)
    BY <2>1 DEF CreateJoin, CreateJoinFails, JoinCleanup, JoinLeave, JoinTimer,
                JoinEnter, JoinRefused, JoinFallback
  <2>2. CASE KickMove(u) \/ KickTimer(u) \/ ShareInsert(u) \/ ShareRemove(u)
             \/ WatchMark(u) \/ WatchInsert(u) \/ UnwatchRemove(u)
    BY <2>2 DEF KickMove, KickTimer, ShareInsert, ShareRemove, WatchMark,
                WatchInsert, UnwatchRemove
  <2>3. CASE QuitLeave(u) \/ QuitTimer(u) \/ QuitRemove(u) \/ QuitPurge(u)
    BY <2>3 DEF QuitLeave, QuitTimer, QuitRemove, QuitPurge
  <2> QED BY <2>1, <2>2, <2>3 DEF Continue
<1>3. task[u].at \notin {"unborn", "idle", "gone"} BY ContinueTask
<1>4. ASSUME ~QuitRemove(u) PROVE online' = online
  <2>1. CASE CreateJoin(u) \/ CreateJoinFails(u) \/ JoinCleanup(u) \/ JoinLeave(u)
             \/ JoinTimer(u) \/ JoinEnter(u) \/ JoinRefused(u) \/ JoinFallback(u)
    BY <2>1 DEF CreateJoin, CreateJoinFails, JoinCleanup, JoinLeave, JoinTimer,
                JoinEnter, JoinRefused, JoinFallback, Enter
  <2>2. CASE KickMove(u) \/ KickTimer(u) \/ ShareInsert(u) \/ ShareRemove(u)
             \/ WatchMark(u) \/ WatchInsert(u) \/ UnwatchRemove(u)
    BY <2>2 DEF KickMove, KickTimer, ShareInsert, ShareRemove, WatchMark, WatchInsert,
                UnwatchRemove, EnterGeneral, Enter
  <2>3. CASE QuitLeave(u) \/ QuitTimer(u) \/ QuitPurge(u)
    BY <2>3 DEF QuitLeave, QuitTimer, QuitPurge
  <2> QED BY <1>4, <2>1, <2>2, <2>3 DEF Continue
<1>5. online \ {u} \subseteq online' BY <1>4 DEF QuitRemove
<1>6. HasSession'
  BY <1>1, <1>3, <1>4, <1>5, ContinueSettled DEF Homed, HasSession
<1>7. ASSUME NEW v \in Users \ {u} PROVE Settled(v)' <=> Settled(v)
  BY <1>1, <1>7 DEF Settled
<1>8. ASSUME NEW v \in Users, BeingMoved(v), ~KickMove(u) PROVE BeingMoved(v)'
  <2>1. PICK k \in Users : task[k].at = "kick_move" /\ task[k].who = v
    BY <1>8 DEF BeingMoved
  <2>2. k # u
    BY <1>8, <2>1 DEF Continue, CreateJoin, CreateJoinFails, JoinCleanup, JoinLeave,
         JoinTimer, JoinEnter, JoinRefused, JoinFallback, KickTimer, ShareInsert,
         ShareRemove, WatchMark, WatchInsert, UnwatchRemove, QuitLeave, QuitTimer, QuitRemove,
         QuitPurge
  <2> QED BY <1>1, <2>1, <2>2 DEF BeingMoved
<1>9. ASSUME NEW v \in Users, Settled(v)', ~BeingMoved(v)' PROVE AtHome(v)'
  <2>1. CASE v = u /\ (JoinEnter(u) \/ JoinFallback(u))
    <3>1. u \in online
      BY <2>1, <1>3 DEF Homed, HasSession, JoinEnter, JoinFallback
    <3>2. PICK c \in live : Enter(u, c)
      BY <2>1, ChannelFacts DEF JoinEnter, RecheckJoin, JoinFallback, Homed,
                                PermanentLive, General
    <3>3. /\ online' = online /\ chan' = [chan EXCEPT ![u] = c]
          /\ members' = [members EXCEPT ![c] = @ \cup {u}]
      BY <3>1, <3>2 DEF Enter, MovedSession
    <3> QED BY <1>0, <1>2, <2>1, <3>1, <3>3 DEF AtHome, TypeOK
  <2>2. CASE KickMove(u) /\ task[u].who = v
    <3>1. Settled(v)
      BY <1>7, <1>9, <2>2 DEF KickMove, Settled
    <3>2. v \in online BY <3>1 DEF Homed, HasSession, Settled
    <3>3. /\ online' = online /\ chan' = [chan EXCEPT ![v] = General]
          /\ members' = [members EXCEPT ![General] = @ \cup {v}]
      BY <2>2, <3>2 DEF KickMove, EnterGeneral, Enter, MovedSession
    <3>4. General \in live BY DEF Homed, PermanentLive, General
    <3> QED BY <1>0, <1>2, <3>2, <3>3, <3>4 DEF AtHome, TypeOK
  <2>3. CASE ~(v = u /\ (JoinEnter(u) \/ JoinFallback(u)))
             /\ ~(KickMove(u) /\ task[u].who = v)
    <3>1. Settled(v) BY <1>7, <1>9, <2>3, ContinueSettled
    <3>2. ~BeingMoved(v)
      <4>1. ASSUME KickMove(u), BeingMoved(v) PROVE BeingMoved(v)'
        <5>1. PICK k \in Users : task[k].at = "kick_move" /\ task[k].who = v
          BY <4>1 DEF BeingMoved
        <5>2. k # u BY <2>3, <4>1, <5>1
        <5> QED BY <1>1, <5>1, <5>2 DEF BeingMoved
      <4> QED BY <1>8, <1>9, <4>1
    <3>3. AtHome(v) BY <3>1, <3>2 DEF Homed, HomeChannelHasUser, AtHome
    <3>4. CASE JoinEnter(u) \/ JoinFallback(u)
      <4>1. PICK c : Enter(u, c) BY <3>4 DEF JoinEnter, JoinFallback
      <4>2. v # u BY <2>3, <3>4
      <4> QED BY <1>0, <1>2, <3>3, <4>1, <4>2 DEF AtHome, Enter, MovedSession, TypeOK
    <3>5. CASE KickMove(u)
      <4>1. Enter(task[u].who, General) BY <3>5 DEF KickMove, EnterGeneral
      <4>2. v # task[u].who BY <2>3, <3>5
      <4> QED BY <1>0, <1>2, <3>3, <4>1, <4>2 DEF AtHome, Enter, MovedSession, TypeOK
    <3>6. CASE JoinLeave(u) \/ QuitLeave(u) \/ QuitRemove(u) \/ QuitPurge(u)
      <4>1. v # u
        BY <3>1, <3>6 DEF Settled, JoinLeave, QuitLeave, QuitRemove, QuitPurge
      <4>2. CASE JoinLeave(u) \/ QuitLeave(u)
        <5>1. /\ online' = online /\ chan' = chan
              /\ \/ members' = members
                 \/ members' = [members EXCEPT ![chan[u]] = @ \ {u}]
          BY <4>2 DEF JoinLeave, QuitLeave, LeaveCurrent
        <5>2. chan[u] \in Channel /\ chan[v] \in Channel /\ task[u].old \in Channel
          BY <1>0, TaskFields DEF TypeOK
        <5> QED BY <1>0, <1>2, <3>3, <4>1, <5>1, <5>2, RemovalOfOther DEF AtHome
      <4>3. CASE QuitRemove(u)
        BY <1>0, <1>2, <3>3, <4>1, <4>3 DEF AtHome, QuitRemove, TypeOK
      <4>4. CASE QuitPurge(u)
        <5>1. /\ online' = online /\ chan' = chan
              /\ \/ members' = members
                 \/ members' = [members EXCEPT ![task[u].old] = @ \ {u}]
          BY <4>4 DEF QuitPurge
        <5>2. chan[u] \in Channel /\ chan[v] \in Channel /\ task[u].old \in Channel
          BY <1>0, TaskFields DEF TypeOK
        <5> QED BY <1>0, <1>2, <3>3, <4>1, <5>1, <5>2, RemovalOfOther DEF AtHome
      <4> QED BY <3>6, <4>2, <4>3, <4>4
    <3>7. CASE CreateJoin(u) \/ CreateJoinFails(u) \/ JoinCleanup(u) \/ JoinTimer(u)
               \/ JoinRefused(u) \/ KickTimer(u) \/ QuitTimer(u)
      <4>1. online' = online /\ chan' = chan /\ members' = members
        BY <3>7 DEF CreateJoin, CreateJoinFails, JoinCleanup, JoinTimer, JoinRefused,
                    KickTimer, QuitTimer
      <4> QED BY <1>2, <3>3, <4>1 DEF AtHome
    <3>8. CASE ShareInsert(u) \/ ShareRemove(u) \/ WatchMark(u) \/ WatchInsert(u)
           \/ UnwatchRemove(u)
      <4>1. online' = online /\ chan' = chan /\ members' = members
        BY <3>8 DEF ShareInsert, ShareRemove, WatchMark, WatchInsert, UnwatchRemove
      <4> QED BY <1>2, <3>3, <4>1 DEF AtHome
    <3> QED BY <3>4, <3>5, <3>6, <3>7, <3>8 DEF Continue
  <2> QED BY <2>1, <2>2, <2>3
<1> QED BY <1>6, <1>9 DEF HomeChannelHasUser, AtHome

LEMMA TimerHomed ==
    ASSUME Typed, Homed, NEW c \in Channel, TimerFires(c)
    PROVE  HasSession' /\ HomeChannelHasUser'
<1>0. TypeOK BY DEF Typed
<1>1. task' = task /\ online' = online /\ chan' = chan
  BY DEF TimerFires, sessionVars
<1>2. HasSession' BY <1>1 DEF Homed, HasSession
<1>3. ASSUME NEW v \in Users, AtHome(v) PROVE AtHome(v)'
  BY <1>0, <1>1, <1>3 DEF AtHome, TimerFires, Deletable, TypeOK
<1>4. ASSUME NEW v \in Users, Settled(v)', ~BeingMoved(v)' PROVE AtHome(v)'
  <2>1. Settled(v) /\ ~BeingMoved(v) BY <1>1, <1>4 DEF Settled, BeingMoved
  <2> QED BY <1>3, <2>1 DEF Homed, HomeChannelHasUser, AtHome
<1> QED BY <1>2, <1>4 DEF HomeChannelHasUser, AtHome

LEMMA HomedInductive ==
    Typed /\ RegistryOk /\ Homed /\ [Next]_vars => Homed'
<1> SUFFICES ASSUME Typed, RegistryOk, Homed, [Next]_vars PROVE Homed' OBVIOUS
<1>1. PermanentLive' BY RegistryInductive DEF Homed
<1>2. ASSUME NEW u \in Users, Request(u) PROVE Homed'
  BY <1>1, <1>2, RequestHomed DEF Homed
<1>3. ASSUME NEW u \in Users, Continue(u) PROVE Homed'
  BY <1>1, <1>3, ContinueHomed DEF Homed
<1>4. ASSUME NEW c \in Channel, TimerFires(c) PROVE Homed'
  BY <1>1, <1>4, TimerHomed DEF Homed
<1>5. CASE UNCHANGED vars
  BY <1>1, <1>5 DEF vars, memberVars, sessionVars, channelVars, Homed, HasSession,
                    HomeChannelHasUser, Settled, BeingMoved
<1> QED BY <1>2, <1>3, <1>4, <1>5 DEF Next

\* Outside a join, a kick and the end of its connection, a connected user is a
\* member of the channel its session names, and that channel exists.
THEOREM UsersNeverLost == Spec => []HomeChannelHasUser
<1>1. Homed => HomeChannelHasUser BY DEF Homed
<1>2. Init => Typed /\ RegistryOk /\ Homed
  BY InitTyped, InitRegistry, InitHomed
<1>3. Typed /\ RegistryOk /\ Homed /\ [Next]_vars => (Typed /\ RegistryOk /\ Homed)'
  BY TypedInductive, RegistryInductive, HomedInductive DEF Homed
<1> QED BY <1>1, <1>2, <1>3, PTL DEF Spec

----------------------------------------------------------------------------
(* The inductive invariant: where the task of a user is tells whether he   *)
(* can be in a channel, and then it is the one of his session.             *)

Outside == {"unborn", "join_timer", "join_enter", "join_fallback",
            "quit_timer", "quit_remove", "quit_purge", "gone"}

Placed ==
    \A u \in Users, c \in Channel :
        u \in members[c] => c \in live /\ chan[u] = c /\ task[u].at \notin Outside

NoKicks == \A u \in Users : task[u].at \notin {"kick_move", "kick_timer"}

IInv == Typed /\ RegistryOk /\ Homed /\ Placed /\ NoKicks

\* The invariant of the server without the part about places.
Served == Typed /\ RegistryOk /\ Homed

LEMMA ServedInductive == Served /\ [Next]_vars => Served'
BY TypedInductive, RegistryInductive, HomedInductive DEF Served, Homed

LEMMA InitIInv == Init => IInv
<1> SUFFICES ASSUME Init PROVE IInv OBVIOUS
<1>1. Placed /\ NoKicks BY DEF Init, Placed, NoKicks, Resting, At
<1> QED BY <1>1, InitTyped, InitRegistry, InitHomed DEF IInv

\* A request, other than a kick, changes no member set and no session, and
\* does not take its sender out of anything yet.
LEMMA RequestStays ==
    ASSUME "kick" \notin Ops, IInv, NEW u \in Users, Request(u)
    PROVE  /\ members' = members /\ chan' = chan /\ live \subseteq live'
           /\ task'[u].at \notin Outside \cup {"kick_move", "kick_timer"}
           /\ \/ online' = online /\ task[u].at = "idle"
              \/ online' = online \cup {u} /\ task[u].at = "unborn"
           /\ \/ live' = live /\ nextChannel' = nextChannel
              \/ /\ live' = live \cup {nextChannel} /\ nextChannel' = nextChannel + 1
                 /\ nextChannel <= MaxChannelId /\ task[u].at = "idle"
<1>0. TypeOK BY DEF IInv, Typed
<1> USE DEF channelVars, memberVars, sessionVars, Outside, Goto, Ready, Resting, Joining,
            Leaving, Sharing, At
<1> DEFINE Goal ==
           /\ members' = members /\ chan' = chan /\ live \subseteq live'
           /\ task'[u].at \notin Outside \cup {"kick_move", "kick_timer"}
           /\ \/ online' = online /\ task[u].at = "idle"
              \/ online' = online \cup {u} /\ task[u].at = "unborn"
           /\ \/ live' = live /\ nextChannel' = nextChannel
              \/ /\ live' = live \cup {nextChannel} /\ nextChannel' = nextChannel + 1
                 /\ nextChannel <= MaxChannelId /\ task[u].at = "idle"
<1>1. CASE Connect(u) BY <1>0, <1>1 DEF Connect, TypeOK
<1>2. ASSUME NEW d \in Channel, NEW p \in Secret, JoinRequest(u, d, p) PROVE Goal
  BY <1>0, <1>2 DEF JoinRequest, BeginJoin, TypeOK
<1>3. ASSUME NEW d \in Channel, NEW p \in Secret, SetChannelPassword(u, d, p) PROVE Goal
  BY <1>0, <1>3 DEF SetChannelPassword, TypeOK
<1>4. ASSUME NEW n \in Names, NEW p \in Secret, CreateChannel(u, n, p) PROVE Goal
  BY <1>0, <1>4 DEF CreateChannel, NextId, TypeOK
<1>5. ASSUME NEW d \in Channel, NEW t \in Users, SendInvite(u, d, t) PROVE Goal
  BY <1>0, <1>5 DEF SendInvite, TypeOK
<1>6. ASSUME NEW d \in Channel, DeclineInvite(u, d) PROVE Goal
  BY <1>0, <1>6 DEF DeclineInvite, TypeOK
<1>7. ASSUME NEW t \in Users, WatchShare(u, t) PROVE Goal
  BY <1>0, <1>7 DEF WatchShare, TypeOK
<1>8. CASE StartShare(u) \/ StopShare(u) \/ StopWatching(u) \/ Quit(u)
  BY <1>0, <1>8 DEF StartShare, StopShare, StopWatching, Quit, TypeOK
<1> HIDE DEF channelVars, memberVars, sessionVars, Outside, Goto, Ready, Resting, Joining,
            Leaving, Sharing, At
<1>9. ~\E d \in Channel, t \in Users : KickUser(u, d, t) BY DEF KickUser
<1> QED BY <1>1, <1>2, <1>3, <1>4, <1>5, <1>6, <1>7, <1>8, <1>9 DEF Request

\* The steps that take a user out of his channel, or find him in none.
LEMMA LeaveStep ==
    ASSUME IInv, NEW u \in Users, JoinLeave(u) \/ QuitLeave(u)
    PROVE  /\ \A v \in Users \ {u}, c \in Channel : v \in members'[c] <=> v \in members[c]
           /\ \A c \in Channel : u \notin members'[c]
           /\ chan' = chan /\ online' = online
           /\ task[u].at # "unborn"
           /\ task'[u].at \in {"join_enter", "join_timer", "quit_remove", "quit_timer"}
<1>0. TypeOK BY DEF IInv, Typed
<1>1. \E stay, timed \in Task :
         /\ LeaveCurrent(u, stay, timed)
         /\ {stay.at, timed.at} \subseteq {"join_enter", "join_timer", "quit_remove", "quit_timer"}
  <2>1. CASE JoinLeave(u)
    <3>1. {"join_enter", "join_timer"} \subseteq Labels BY DEF Labels
    <3>2. LET stay == Joining("join_enter", task[u].ch, task[u].pw, General)
              timed == Joining("join_timer", task[u].ch, task[u].pw, chan[u])
          IN  /\ LeaveCurrent(u, stay, timed) /\ stay \in Task /\ timed \in Task
              /\ stay.at = "join_enter" /\ timed.at = "join_timer"
      BY <1>0, <2>1, <3>1, TaskTypes, TaskFields, ChannelFacts
         DEF JoinLeave, TypeOK, Joining, At, Task
    <3> QED BY <3>2
  <2>2. CASE QuitLeave(u)
    <3>1. {"quit_remove", "quit_timer"} \subseteq Labels BY DEF Labels
    <3>2. chan[u] \in Channel /\ task[u].pw \in Secret /\ task[u].who \in Users \cup {NoUser}
      BY <1>0, TaskFields DEF TypeOK
    <3>3. Leaving("quit_remove", General) \in Task /\ Leaving("quit_timer", chan[u]) \in Task
      BY <3>1, <3>2, TaskTypes, ChannelFacts
    <3>4. /\ Leaving("quit_remove", General).at = "quit_remove"
          /\ Leaving("quit_timer", chan[u]).at = "quit_timer"
      BY DEF Leaving, At
    <3>5. LeaveCurrent(u, Leaving("quit_remove", General), Leaving("quit_timer", chan[u]))
      BY <2>2 DEF QuitLeave
    <3> QED BY <3>3, <3>4, <3>5
  <2> QED BY <2>1, <2>2
<1>2. chan' = chan /\ online' = online /\ task[u].at # "unborn"
  BY DEF JoinLeave, QuitLeave, sessionVars
<1>3. task'[u].at \in {"join_enter", "join_timer", "quit_remove", "quit_timer"}
  BY <1>0, <1>1 DEF LeaveCurrent, Goto, TypeOK
<1>4. CASE chan[u] \in live /\ u \in members[chan[u]]
  <2>1. members' = [members EXCEPT ![chan[u]] = @ \ {u}] BY <1>1, <1>4 DEF LeaveCurrent
  <2>2. \A c \in Channel : u \in members[c] => c = chan[u] BY DEF IInv, Placed
  <2> QED BY <1>0, <1>2, <1>3, <2>1, <2>2 DEF TypeOK
<1>5. CASE ~(chan[u] \in live /\ u \in members[chan[u]])
  <2>1. members' = members BY <1>1, <1>5 DEF LeaveCurrent
  <2>2. \A c \in Channel : u \notin members[c] BY <1>5 DEF IInv, Placed
  <2> QED BY <1>2, <1>3, <2>1, <2>2
<1> QED BY <1>4, <1>5

\* The steps that put a user into a channel.
LEMMA EnterStep ==
    ASSUME IInv, NEW u \in Users, JoinEnter(u) \/ JoinFallback(u)
    PROVE  \E c \in live :
             /\ members' = [members EXCEPT ![c] = @ \cup {u}]
             /\ chan' = [chan EXCEPT ![u] = c] /\ online' = online
             /\ HasRoom(c)
             /\ \A d \in Channel : u \notin members[d]
             /\ u \in online
             /\ task[u].at \in {"join_enter", "join_fallback"} /\ task'[u].at = "idle"
<1>0. TypeOK BY DEF IInv, Typed
<1>1. task[u].at \in {"join_enter", "join_fallback"} BY DEF JoinEnter, JoinFallback
<1>2. \A d \in Channel : u \notin members[d] BY <1>1 DEF IInv, Placed, Outside
<1>3. u \in online BY <1>1 DEF IInv, Homed, HasSession
<1>4. \E c \in live : Enter(u, c) /\ HasRoom(c)
  <2>1. CASE JoinEnter(u) BY <2>1 DEF JoinEnter, RecheckJoin
  <2>2. CASE JoinFallback(u)
    <3>1. General \in live BY ChannelFacts DEF IInv, Homed, PermanentLive, General
    <3>2. HasRoom(General) BY DEF HasRoom, MaxUsersOf, General
    <3> QED BY <2>2, <3>1, <3>2 DEF JoinFallback
  <2> QED BY <2>1, <2>2
<1>5. task'[u].at = "idle" BY <1>0 DEF JoinEnter, JoinFallback, Goto, Resting, At, TypeOK
<1> QED BY <1>1, <1>2, <1>3, <1>4, <1>5 DEF Enter, MovedSession

\* The end of a session, whose user is in no channel any more.
LEMMA RemoveStep ==
    ASSUME IInv, NEW u \in Users, QuitRemove(u)
    PROVE  /\ members' = members /\ chan' = [chan EXCEPT ![u] = General]
           /\ online' = online \ {u} /\ u \in online
           /\ \A d \in Channel : u \notin members[d]
           /\ task[u].at = "quit_remove" /\ task'[u].at = "quit_purge"
<1>0. TypeOK BY DEF IInv, Typed
<1>1. task[u].at = "quit_remove" BY DEF QuitRemove
<1>2. \A d \in Channel : u \notin members[d] BY <1>1 DEF IInv, Placed, Outside
<1>3. u \in online BY <1>1 DEF IInv, Homed, HasSession
<1>4. task'[u].at = "quit_purge" BY <1>0 DEF QuitRemove, Goto, Leaving, At, TypeOK
<1> QED BY <1>1, <1>2, <1>3, <1>4 DEF QuitRemove, memberVars

\* The steps of a handler that leave members and sessions alone.  The last
\* removal, of a session already gone, finds nothing to remove.
LEMMA OtherStep ==
    ASSUME IInv, NEW u \in Users, Continue(u),
           ~JoinLeave(u), ~QuitLeave(u), ~JoinEnter(u), ~JoinFallback(u), ~QuitRemove(u)
    PROVE  /\ members' = members /\ chan' = chan /\ online' = online
           /\ task[u].at # "unborn"
           /\ task'[u].at \notin {"unborn", "kick_move", "kick_timer"}
           /\ task'[u].at \in Outside => task[u].at \in Outside
<1>0. TypeOK BY DEF IInv, Typed
<1> USE DEF memberVars, sessionVars, Outside, Goto, Resting, Joining, Leaving, Sharing, At
<1>1. CASE CreateJoin(u) \/ CreateJoinFails(u) \/ JoinCleanup(u)
  BY <1>0, <1>1 DEF CreateJoin, CreateJoinFails, JoinCleanup, BeginJoin, TypeOK
<1>2. CASE JoinTimer(u) \/ JoinRefused(u) \/ QuitTimer(u)
  BY <1>0, <1>2 DEF JoinTimer, JoinRefused, QuitTimer, TypeOK
<1>3. CASE ShareInsert(u) \/ ShareRemove(u) \/ WatchMark(u) \/ WatchInsert(u)
           \/ UnwatchRemove(u)
  BY <1>0, <1>3 DEF ShareInsert, ShareRemove, WatchMark, WatchInsert, UnwatchRemove, TypeOK
<1>4. CASE QuitPurge(u)
  <2>1. task[u].at = "quit_purge" BY <1>4 DEF QuitPurge
  <2>2. \A d \in Channel : u \notin members[d] BY <2>1 DEF IInv, Placed
  <2>3. task[u].old \in Channel BY <1>0, TaskFields
  <2>4. members' = members BY <1>0, <1>4, <2>2, <2>3 DEF QuitPurge, TypeOK
  <2> QED BY <1>0, <1>4, <2>4 DEF QuitPurge, TypeOK
<1>5. ~KickMove(u) /\ ~KickTimer(u) BY DEF IInv, NoKicks, KickMove, KickTimer
<1> HIDE DEF memberVars, sessionVars, Outside, Goto, Resting, Joining, Leaving, Sharing, At
<1> QED BY <1>1, <1>2, <1>3, <1>4, <1>5 DEF Continue

\* No handler changes the channels themselves.
LEMMA ContinueLive ==
    ASSUME NEW u \in Users, Continue(u)
    PROVE  live' = live /\ nextChannel' = nextChannel
<1> USE DEF channelVars
<1>1. CASE CreateJoin(u) \/ CreateJoinFails(u) \/ JoinCleanup(u) \/ JoinLeave(u)
           \/ JoinTimer(u) \/ JoinEnter(u) \/ JoinRefused(u) \/ JoinFallback(u)
  BY <1>1 DEF CreateJoin, CreateJoinFails, JoinCleanup, JoinLeave, JoinTimer,
              JoinEnter, JoinRefused, JoinFallback
<1>2. CASE KickMove(u) \/ KickTimer(u) \/ ShareInsert(u) \/ ShareRemove(u)
           \/ WatchMark(u) \/ WatchInsert(u) \/ UnwatchRemove(u)
  BY <1>2 DEF KickMove, KickTimer, ShareInsert, ShareRemove, WatchMark,
              WatchInsert, UnwatchRemove
<1>3. CASE QuitLeave(u) \/ QuitTimer(u) \/ QuitRemove(u) \/ QuitPurge(u)
  BY <1>3 DEF QuitLeave, QuitTimer, QuitRemove, QuitPurge
<1> QED BY <1>1, <1>2, <1>3 DEF Continue

----------------------------------------------------------------------------
LEMMA PlacedInductive ==
    ASSUME "kick" \notin Ops, IInv, [Next]_vars
    PROVE  Placed' /\ NoKicks'
<1>0. TypeOK BY DEF IInv, Typed
<1>1. ASSUME NEW u \in Users, Request(u) PROVE Placed' /\ NoKicks'
  <2>1. \A v \in Users \ {u} : task'[v] = task[v] BY <1>1, RequestTask DEF IInv
  <2> QED BY <1>1, <2>1, RequestStays DEF IInv, Placed, NoKicks
<1>2. ASSUME NEW u \in Users, Continue(u) PROVE Placed' /\ NoKicks'
  <2>1. \A v \in Users \ {u} : task'[v] = task[v] BY <1>2, ContinueTask DEF IInv
  <2>2. live' = live BY <1>2, ContinueLive
  <2>3. CASE JoinLeave(u) \/ QuitLeave(u)
    BY <2>1, <2>2, <2>3, LeaveStep DEF IInv, Placed, NoKicks
  <2>4. CASE JoinEnter(u) \/ JoinFallback(u)
    <3>1. PICK c \in live :
             /\ members' = [members EXCEPT ![c] = @ \cup {u}]
             /\ chan' = [chan EXCEPT ![u] = c]
             /\ \A d \in Channel : u \notin members[d]
             /\ task'[u].at = "idle"
      BY <2>4, EnterStep
    <3>2. ASSUME NEW v \in Users, NEW d \in Channel, v \in members'[d]
          PROVE  d \in live' /\ chan'[v] = d /\ task'[v].at \notin Outside
      <4>1. CASE v = u BY <1>0, <2>2, <3>1, <3>2, <4>1 DEF TypeOK, Outside
      <4>2. CASE v # u
        <5>1. v \in members[d] BY <1>0, <3>1, <3>2, <4>2 DEF TypeOK
        <5> QED BY <1>0, <2>1, <2>2, <3>1, <4>2, <5>1 DEF IInv, Placed, TypeOK
      <4> QED BY <4>1, <4>2
    <3> QED BY <2>1, <3>1, <3>2 DEF IInv, Placed, NoKicks
  <2>5. CASE QuitRemove(u)
    <3>1. /\ members' = members /\ chan' = [chan EXCEPT ![u] = General]
          /\ \A d \in Channel : u \notin members[d]
          /\ task'[u].at = "quit_purge"
      BY <2>5, RemoveStep
    <3>2. Placed'
      <4>1. \A v \in Users \ {u} : chan'[v] = chan[v] BY <1>0, <3>1 DEF TypeOK
      <4> QED BY <2>1, <2>2, <3>1, <4>1 DEF IInv, Placed
    <3> QED BY <2>1, <3>1, <3>2 DEF IInv, NoKicks
  <2>6. CASE ~(JoinLeave(u) \/ QuitLeave(u) \/ JoinEnter(u) \/ JoinFallback(u) \/ QuitRemove(u))
    <3>1. /\ members' = members /\ chan' = chan
          /\ task'[u].at \notin {"kick_move", "kick_timer"}
          /\ task'[u].at \in Outside => task[u].at \in Outside
      BY <1>2, <2>6, OtherStep
    <3> QED BY <2>1, <2>2, <3>1 DEF IInv, Placed, NoKicks
  <2> QED BY <2>3, <2>4, <2>5, <2>6
<1>3. ASSUME NEW c \in Channel, TimerFires(c) PROVE Placed' /\ NoKicks'
  <2>1. chan' = chan /\ task' = task BY <1>3 DEF TimerFires, sessionVars
  <2>2. \A d \in Channel : members'[d] = members[d] /\ (d \in live /\ members[d] # {} => d \in live')
    BY <1>0, <1>3 DEF TimerFires, Deletable, TypeOK
  <2> QED BY <2>1, <2>2 DEF IInv, Placed, NoKicks
<1>4. CASE UNCHANGED vars
  BY <1>4 DEF IInv, Placed, NoKicks, vars, channelVars, memberVars, sessionVars
<1> QED BY <1>1, <1>2, <1>3, <1>4 DEF Next

\* "Set of user_ids currently in this channel": a member's session names the
\* channel, on a server nobody is kicked from.
THEOREM MembersMatchSessions ==
    "kick" \notin Ops => (Spec => []MembershipMatchesSession)
<1> SUFFICES ASSUME "kick" \notin Ops PROVE Spec => []MembershipMatchesSession OBVIOUS
<1>1. IInv => MembershipMatchesSession
  BY DEF IInv, Placed, MembershipMatchesSession, Typed, TypeOK
<1>2. IInv /\ [Next]_vars => IInv'
  BY PlacedInductive, ServedInductive DEF IInv, Served
<1> QED BY <1>1, <1>2, InitIInv, PTL DEF Spec

----------------------------------------------------------------------------
(* The refinement.                                                         *)

\* What the mapped variables say, and the abstract members of a channel.
LEMMA Mapping ==
    ASSUME IInv
    PROVE  /\ \A u \in Users : placesOf[u] = {c \in live : u \in members[c]}
           /\ \A u \in Users : stageOf[u] = IF task[u].at = "unborn" THEN "new"
                                            ELSE IF u \in online THEN "present" ELSE "gone"
           /\ \A c \in live : M!Inside(c) = members[c]
           /\ live \subseteq Channel
BY DEF IInv, Typed, TypeOK, placesOf, stageOf, M!Inside

\* A step that changes none of the mapped variables.
LEMMA Stutter ==
    ASSUME live' = live, nextChannel' = nextChannel, members' = members, online' = online,
           \A u \in Users : task'[u].at = "unborn" <=> task[u].at = "unborn"
    PROVE  UNCHANGED M!vars
<1>1. placesOf' = placesOf BY DEF placesOf
<1>2. stageOf' = stageOf BY DEF stageOf
<1> QED BY <1>1, <1>2 DEF M!vars

LEMMA InitMaps == Init => M!Init
<1> SUFFICES ASSUME Init PROVE M!Init OBVIOUS
<1>1. placesOf = [u \in Users |-> {}] BY ChannelFacts DEF Init, placesOf
<1>2. stageOf = [u \in Users |-> "new"] BY DEF Init, stageOf, Resting, At
<1>3. nextChannel - 1 = NumPersistent BY DEF Init
<1> QED BY <1>1, <1>2, <1>3 DEF Init, M!Init

LEMMA RequestMaps ==
    ASSUME "kick" \notin Ops, IInv, NEW u \in Users, Request(u)
    PROVE  M!Next \/ UNCHANGED M!vars
<1>0. TypeOK BY DEF IInv, Typed
<1>1. \A v \in Users \ {u} : task'[v] = task[v] BY RequestTask DEF IInv
<1>2. /\ members' = members /\ task'[u].at \notin Outside
      /\ \/ online' = online /\ task[u].at = "idle"
         \/ online' = online \cup {u} /\ task[u].at = "unborn"
      /\ \/ live' = live /\ nextChannel' = nextChannel
         \/ /\ live' = live \cup {nextChannel} /\ nextChannel' = nextChannel + 1
            /\ nextChannel <= MaxChannelId /\ task[u].at = "idle"
  BY RequestStays
<1>3. task'[u].at # "unborn" BY <1>2 DEF Outside
<1>4. CASE task[u].at = "unborn"
  <2>1. live' = live /\ nextChannel' = nextChannel /\ online' = online \cup {u}
    BY <1>2, <1>4
  <2>2. placesOf' = placesOf BY <1>2, <2>1 DEF placesOf
  <2>3. stageOf' = [stageOf EXCEPT ![u] = "present"]
    BY <1>1, <1>3, <2>1 DEF stageOf
  <2>4. stageOf[u] = "new" BY <1>4 DEF stageOf
  <2>5. M!Arrive(u) BY <2>1, <2>2, <2>3, <2>4 DEF M!Arrive
  <2> QED BY <2>5 DEF M!Next
<1>5. CASE task[u].at = "idle" /\ live' = live /\ nextChannel' = nextChannel
  BY <1>1, <1>2, <1>3, <1>5, Stutter
<1>6. CASE /\ task[u].at = "idle" /\ live' = live \cup {nextChannel}
           /\ nextChannel' = nextChannel + 1 /\ nextChannel <= MaxChannelId
  <2>1. nextChannel \in Channel /\ nextChannel \in Nat
    BY <1>0, <1>6 DEF TypeOK, Channel
  <2>2. nextChannel \notin live BY <2>1 DEF IInv, RegistryOk
  <2>3. members[nextChannel] = {} BY <1>0, <2>1, <2>2 DEF IInv, Placed, TypeOK
  <2>4. placesOf' = placesOf BY <1>2, <1>6, <2>3 DEF placesOf
  <2>5. online' = online BY <1>2, <1>6
  <2>6. stageOf' = stageOf BY <1>1, <1>3, <1>6, <2>5 DEF stageOf
  <2>7. 0..(nextChannel' - 1) = (0..(nextChannel - 1)) \cup {nextChannel}
    BY <1>6, <2>1
  <2>8. nextChannel \notin 0..(nextChannel - 1) BY <2>1
  <2>9. M!Open(nextChannel) BY <1>6, <2>4, <2>6, <2>7, <2>8 DEF M!Open
  <2> QED BY <2>1, <2>9 DEF M!Next
<1> QED BY <1>2, <1>4, <1>5, <1>6

LEMMA ContinueMaps ==
    ASSUME IInv, NEW u \in Users, Continue(u)
    PROVE  M!Next \/ UNCHANGED M!vars
<1>0. TypeOK BY DEF IInv, Typed
<1>1. \A v \in Users \ {u} : task'[v] = task[v] BY ContinueTask DEF IInv
<1>2. live' = live /\ nextChannel' = nextChannel BY ContinueLive
<1>3. live \subseteq Channel BY <1>0 DEF TypeOK
<1>4. CASE JoinLeave(u) \/ QuitLeave(u)
  <2>1. /\ \A v \in Users \ {u}, c \in Channel : v \in members'[c] <=> v \in members[c]
        /\ \A c \in Channel : u \notin members'[c]
        /\ online' = online /\ task[u].at # "unborn" /\ task'[u].at # "unborn"
    BY <1>4, LeaveStep
  <2>2. stageOf' = stageOf BY <1>1, <2>1 DEF stageOf
  <2>3. placesOf' = [placesOf EXCEPT ![u] = {}] BY <1>2, <1>3, <2>1 DEF placesOf
  <2>4. CASE placesOf[u] = {}
    <3>1. placesOf' = placesOf BY <2>3, <2>4 DEF placesOf
    <3> QED BY <1>2, <2>2, <3>1 DEF M!vars
  <2>5. CASE placesOf[u] # {}
    <3>1. M!Depart(u) BY <1>2, <2>2, <2>3, <2>5 DEF M!Depart
    <3> QED BY <3>1 DEF M!Next
  <2> QED BY <2>4, <2>5
<1>5. CASE JoinEnter(u) \/ JoinFallback(u)
  <2>1. PICK c \in live :
           /\ members' = [members EXCEPT ![c] = @ \cup {u}] /\ online' = online
           /\ HasRoom(c)
           /\ \A d \in Channel : u \notin members[d]
           /\ u \in online
           /\ task[u].at \in {"join_enter", "join_fallback"} /\ task'[u].at = "idle"
    BY <1>5, EnterStep
  <2>2. stageOf' = stageOf BY <1>1, <2>1 DEF stageOf
  <2>3. placesOf' = [placesOf EXCEPT ![u] = {c}]
    <3>1. \A d \in live : members'[d] = IF d = c THEN members[d] \cup {u} ELSE members[d]
      BY <1>0, <1>3, <2>1 DEF TypeOK
    <3>2. ASSUME NEW v \in Users \ {u}
          PROVE  {d \in live : v \in members'[d]} = {d \in live : v \in members[d]}
      BY <3>1
    <3>3. \A d \in live : u \notin members[d] BY <1>3, <2>1
    <3>4. {d \in live : u \in members'[d]} = {c} BY <3>1, <3>3
    <3> QED BY <1>2, <3>2, <3>4 DEF placesOf
  <2>4. stageOf[u] = "present" /\ placesOf[u] = {} BY <1>3, <2>1 DEF stageOf, placesOf
  <2>5. M!HasRoom(u, c)
    <3>1. M!Inside(c) = members[c] BY Mapping
    <3>2. c \in Channel /\ members[c] \subseteq Users BY <1>0, <1>3 DEF TypeOK
    <3>3. IsFiniteSet(members[c]) BY <3>2, FS_Subset
    <3>4. Cardinality(members[c]) \in Nat BY <3>3, FS_CardinalityType
    <3>5. Cardinality(members[c] \cup {u}) = Cardinality(members[c]) + 1
      BY <2>1, <3>2, <3>3, FS_AddElement
    <3>6. MaxUsersOf(c) \in Nat BY <3>2, LimitedChannel
    <3>7. members[c] \cup {u} \in Within(c)
      BY <2>1, <3>2, <3>4, <3>5, <3>6 DEF HasRoom, Within
    <3> QED BY <3>1, <3>2, <3>7 DEF M!HasRoom
  <2>6. M!Enter(u, c) BY <1>2, <2>2, <2>3, <2>4, <2>5 DEF M!Enter
  <2> QED BY <1>3, <2>6 DEF M!Next
<1>6. CASE QuitRemove(u)
  <2>1. /\ members' = members /\ online' = online \ {u} /\ u \in online
        /\ \A d \in Channel : u \notin members[d]
        /\ task[u].at = "quit_remove" /\ task'[u].at = "quit_purge"
    BY <1>6, RemoveStep
  <2>2. placesOf' = placesOf BY <1>2, <2>1 DEF placesOf
  <2>3. stageOf' = [stageOf EXCEPT ![u] = "gone"] BY <1>1, <2>1 DEF stageOf
  <2>4. stageOf[u] = "present" /\ placesOf[u] = {} BY <1>3, <2>1 DEF stageOf, placesOf
  <2>5. M!Disconnect(u) BY <1>2, <2>2, <2>3, <2>4 DEF M!Disconnect
  <2> QED BY <2>5 DEF M!Next
<1>7. CASE ~(JoinLeave(u) \/ QuitLeave(u) \/ JoinEnter(u) \/ JoinFallback(u) \/ QuitRemove(u))
  <2>1. /\ members' = members /\ online' = online
        /\ task[u].at # "unborn" /\ task'[u].at # "unborn"
    BY <1>7, OtherStep
  <2> QED BY <1>1, <1>2, <2>1, Stutter
<1> QED BY <1>4, <1>5, <1>6, <1>7

LEMMA TimerMaps ==
    ASSUME IInv, NEW c \in Channel, TimerFires(c)
    PROVE  M!Next \/ UNCHANGED M!vars
<1>0. TypeOK BY DEF IInv, Typed
<1>1. online' = online /\ task' = task /\ nextChannel' = nextChannel
  BY DEF TimerFires, sessionVars
<1>2. stageOf' = stageOf BY <1>1 DEF stageOf
<1>3. CASE Deletable(c)
  <2>1. c \in live /\ live' = live \ {c} /\ c \notin 0..NumPersistent /\ members[c] = {}
    BY <1>3 DEF TimerFires, Deletable, General, Channel
  <2>2. \A d \in Channel : members'[d] = members[d]
    BY <1>0, <1>3, <2>1 DEF TimerFires, TypeOK
  <2>3. placesOf' = placesOf BY <1>0, <2>1, <2>2 DEF placesOf, TypeOK
  <2>4. M!Inside(c) = {} BY <2>1, Mapping
  <2>5. M!Close(c) BY <1>1, <1>2, <2>1, <2>3, <2>4 DEF M!Close
  <2> QED BY <2>5 DEF M!Next
<1>4. CASE ~Deletable(c)
  <2>1. live' = live /\ members' = members BY <1>4 DEF TimerFires
  <2> QED BY <1>1, <2>1, Stutter
<1> QED BY <1>3, <1>4

\* VoipcServer implements Membership, on a server nobody is kicked from.
THEOREM ImplementsMembership == "kick" \notin Ops => (Spec => Implements)
<1> SUFFICES ASSUME "kick" \notin Ops PROVE Spec => Implements OBVIOUS
<1>1. IInv /\ [Next]_vars => IInv'
  BY PlacedInductive, ServedInductive DEF IInv, Served
<1>2. IInv /\ [Next]_vars => [M!Next]_(M!vars)
  <2> SUFFICES ASSUME IInv, [Next]_vars PROVE M!Next \/ UNCHANGED M!vars OBVIOUS
  <2>1. CASE UNCHANGED vars
    BY <2>1, Stutter DEF vars, channelVars, memberVars, sessionVars
  <2> QED BY <2>1, RequestMaps, ContinueMaps, TimerMaps DEF Next
<1> QED BY <1>1, <1>2, InitIInv, InitMaps, PTL DEF Spec, Implements, M!Spec

\* Nobody is in two channels, in a deleted one, or in one before or after his
\* connection, on a server nobody is kicked from.
THEOREM NobodyInTwoPlaces == "kick" \notin Ops => (Spec => []M!OnePlaceAtATime)
<1> SUFFICES ASSUME "kick" \notin Ops PROVE Spec => []M!OnePlaceAtATime OBVIOUS
<1>1. IInv => M!OnePlaceAtATime
  <2> SUFFICES ASSUME IInv, NEW u \in Users
               PROVE  /\ placesOf[u] = {} \/ \E c \in live : placesOf[u] = {c}
                      /\ placesOf[u] # {} => stageOf[u] = "present"
    BY DEF M!OnePlaceAtATime
  <2>1. placesOf[u] = {c \in live : u \in members[c]} /\ live \subseteq Channel BY Mapping
  <2>2. \A c \in placesOf[u] : chan[u] = c /\ task[u].at \notin Outside
    BY <2>1 DEF IInv, Placed
  <2>3. task[u].at \notin Outside => stageOf[u] = "present"
    BY DEF IInv, Homed, HasSession, Outside, stageOf
  <2>4. placesOf[u] # {} => placesOf[u] = {chan[u]} /\ chan[u] \in live BY <2>1, <2>2
  <2> QED BY <2>2, <2>3, <2>4
<1>2. IInv /\ [Next]_vars => IInv'
  BY PlacedInductive, ServedInductive DEF IInv, Served
<1> QED BY <1>1, <1>2, InitIInv, PTL DEF Spec
----------------------------------------------------------------------------
(* The shares.  Where nobody is kicked, nor joins the channel he is in,    *)
(* every way out of a channel begins with the cleanup of the shares.       *)

\* A share is in the channel of the session, which is not General, and the flag tells of it
\* except while a handler is between the flag and the channel.  The handlers hold
\* the channel of the session in their locals; a creator is not yet in his.
SharePlaced(u) ==
    /\ \A c \in Channel : u \in sharers[c] =>
         c = chan[u] /\ c # General /\ (sharing[u] \/ task[u].at = "share_remove")
    /\ sharing[u] =>
         /\ chan[u] # General /\ Settled(u) /\ task[u].at # "share_remove"
         /\ u \in sharers[chan[u]] \/ task[u].at = "share_insert"
    /\ task[u].at = "share_insert" => sharing[u]
    /\ task[u].at \in {"share_insert", "share_remove"} => task[u].ch = chan[u]
    /\ task[u].at = "join_cleanup" => task[u].old = chan[u]
    /\ task[u].at = "create_join" => task[u].ch # chan[u]

SharesPlaced == \A u \in Users : SharePlaced(u)

\* Nothing of the shares of v is touched.
ShareKept(v) ==
    /\ \A c \in Channel : v \in sharers'[c] <=> v \in sharers[c]
    /\ sharing'[v] = sharing[v]

LEMMA ShareKeptPlaced ==
    ASSUME NEW v \in Users, SharePlaced(v), ShareKept(v), task'[v] = task[v],
           chan'[v] = chan[v], chan[v] \in Channel
    PROVE  SharePlaced(v)'
BY DEF SharePlaced, ShareKept, Settled

\* A task that goes on, with the shares and the session as they are: from a point
\* where its user may have a share to another one, or, without a share, to any.
LEMMA ShareMoves ==
    ASSUME NEW u \in Users, SharePlaced(u), ShareKept(u), chan'[u] = chan[u],
           chan[u] \in Channel,
           task[u].at \notin {"share_insert", "share_remove"},
           task'[u].at \notin {"share_insert", "share_remove"},
           task'[u].at = "join_cleanup" => task'[u].old = chan[u],
           task'[u].at = "create_join" => task'[u].ch # chan[u],
           Settled(u) /\ chan[u] # General => Settled(u)'
    PROVE  SharePlaced(u)'
BY DEF SharePlaced, ShareKept, Settled

\* cleanup_screen_shares_for_user in the channel of the session.
LEMMA CleanupEnds ==
    ASSUME IInv, NEW u \in Users, SharePlaced(u), Settled(u), CleanupShares(u, chan[u]),
           task[u].at # "share_remove"
    PROVE  /\ \A v \in Users \ {u} : ShareKept(v)
           /\ ~sharing'[u]
           /\ \A c \in Channel : u \notin sharers'[c]
<1>0. TypeOK BY DEF IInv, Typed
<1>1. chan[u] \in live
  BY DEF IInv, Homed, HomeChannelHasUser, BeingMoved, NoKicks
<1>2. /\ sharers' = [sharers EXCEPT ![chan[u]] = @ \ {u}]
      /\ sharing' = [sharing EXCEPT ![u] = FALSE]
  BY <1>1 DEF CleanupShares, SharersWithout, Unmarked
<1>3. \A c \in Channel : u \in sharers[c] => c = chan[u] BY DEF SharePlaced
<1> QED BY <1>0, <1>2, <1>3 DEF ShareKept, TypeOK

\* At these points there is none.
LEMMA NoShareYet ==
    ASSUME IInv, NEW u \in Users, SharePlaced(u), ~Settled(u)
    PROVE  ~sharing[u] /\ \A c \in Channel : u \notin sharers[c]
BY DEF SharePlaced, Settled

\* A request.
LEMMA RequestShares ==
    ASSUME "kick" \notin Ops, "rejoin" \notin Ops, IInv, SharesPlaced,
           NEW u \in Users, Request(u)
    PROVE  SharesPlaced'
<1>0. TypeOK BY DEF IInv, Typed
<1>1. \A v \in Users \ {u} : task'[v] = task[v] BY RequestTask DEF IInv
<1>2. chan' = chan BY RequestStays
<1>3. chan \in [Users -> Channel] /\ task \in [Users -> Task] BY <1>0 DEF TypeOK
<1>4. SharePlaced(u) BY DEF SharesPlaced
<1>5. SUFFICES (\A v \in Users \ {u} : ShareKept(v)) /\ SharePlaced(u)'
  BY <1>1, <1>2, <1>3, ShareKeptPlaced DEF SharesPlaced
<1> DEFINE Goal == (\A v \in Users \ {u} : ShareKept(v)) /\ SharePlaced(u)'
<1>6. ASSUME UNCHANGED <<sharers, sharing>>,
             task'[u].at \notin {"share_insert", "share_remove"},
             task[u].at \notin {"share_insert", "share_remove"},
             task'[u].at = "join_cleanup" => task'[u].old = chan[u],
             task'[u].at = "create_join" => task'[u].ch # chan[u],
             Settled(u) /\ chan[u] # General => Settled(u)'
      PROVE  Goal
  <2>1. \A v \in Users : ShareKept(v) BY <1>6 DEF ShareKept
  <2> QED BY <1>2, <1>3, <1>4, <1>6, <2>1, ShareMoves
<1>7. CASE Connect(u)
  <2>1. task[u].at = "unborn" /\ task'[u].at = "join_leave" /\ UNCHANGED <<sharers, sharing>>
    BY <1>3, <1>7 DEF Connect, Goto, Joining, At, shareVars
  <2> QED BY <1>6, <2>1 DEF Settled
<1>8. ASSUME NEW c \in Channel, NEW p \in Secret, JoinRequest(u, c, p) PROVE Goal
  <2>1. /\ task[u].at = "idle" /\ c # chan[u] /\ UNCHANGED <<sharers, sharing>>
        /\ task' = [task EXCEPT ![u] = IF chan[u] \in {General, c}
                                       THEN Joining("join_leave", c, p, General)
                                       ELSE Joining("join_cleanup", c, p, chan[u])]
    BY <1>8 DEF JoinRequest, BeginJoin, Ready, Goto, shareVars
  <2>2. CASE chan[u] = General
    <3>1. task'[u].at = "join_leave" BY <1>3, <2>1, <2>2 DEF Joining, At
    <3> QED BY <1>6, <2>1, <2>2, <3>1
  <2>3. CASE chan[u] # General
    <3>1. task'[u].at = "join_cleanup" /\ task'[u].old = chan[u]
      BY <1>3, <2>1, <2>3 DEF Joining, At
    <3> QED BY <1>6, <2>1, <3>1 DEF Settled
  <2> QED BY <2>2, <2>3
<1>9. ASSUME NEW n \in Names, NEW p \in Secret, CreateChannel(u, n, p) PROVE Goal
  <2>1. /\ task[u].at = "idle" /\ UNCHANGED <<sharers, sharing>>
        /\ task'[u].at = "create_join" /\ task'[u].ch = nextChannel
    BY <1>3, <1>9 DEF CreateChannel, Ready, Goto, Joining, At, shareVars
  <2>2. chan[u] \in live
    BY <2>1 DEF IInv, Homed, HomeChannelHasUser, Settled, BeingMoved, NoKicks
  <2>3. chan[u] # nextChannel
    <3>1. nextChannel \in Nat BY <1>0 DEF TypeOK
    <3>2. chan[u] \in 0..(nextChannel - 1) BY <2>2 DEF IInv, RegistryOk
    <3> QED BY <3>1, <3>2
  <2> QED BY <1>6, <2>1, <2>3 DEF Settled
<1>10. ASSUME NEW c \in Channel, NEW p \in Secret, SetChannelPassword(u, c, p) PROVE Goal
  <2>1. task[u].at = "idle" /\ task' = task /\ UNCHANGED <<sharers, sharing>>
    BY <1>10 DEF SetChannelPassword, Ready, shareVars
  <2> QED BY <1>6, <2>1 DEF Settled
<1>11. ASSUME NEW c \in Channel, NEW t \in Users, SendInvite(u, c, t) PROVE Goal
  <2>1. task[u].at = "idle" /\ task' = task /\ UNCHANGED <<sharers, sharing>>
    BY <1>11 DEF SendInvite, Ready, shareVars
  <2> QED BY <1>6, <2>1 DEF Settled
<1>12. ASSUME NEW c \in Channel, DeclineInvite(u, c) PROVE Goal
  <2>1. task[u].at = "idle" /\ task' = task /\ UNCHANGED <<sharers, sharing>>
    BY <1>12 DEF DeclineInvite, Ready, shareVars
  <2> QED BY <1>6, <2>1 DEF Settled
<1>13. ~\E c \in Channel, t \in Users : KickUser(u, c, t) BY DEF KickUser
<1>14. CASE StartShare(u)
  <2>1. /\ task[u].at = "idle" /\ chan[u] # General /\ ~sharing[u] /\ sharers' = sharers
        /\ sharing' = [sharing EXCEPT ![u] = TRUE]
        /\ task'[u].at = "share_insert" /\ task'[u].ch = chan[u]
    BY <1>3, <1>14 DEF StartShare, Ready, Goto, Sharing, At
  <2>2. sharing'[u] /\ \A v \in Users \ {u} : ShareKept(v)
    BY <1>0, <2>1 DEF TypeOK, ShareKept
  <2> QED BY <1>2, <1>4, <2>1, <2>2 DEF SharePlaced, Settled
<1>15. CASE StopShare(u)
  <2>1. /\ task[u].at = "idle" /\ sharers' = sharers
        /\ sharing' = [sharing EXCEPT ![u] = FALSE]
        /\ task'[u].at = "share_remove" /\ task'[u].ch = chan[u]
    BY <1>3, <1>15 DEF StopShare, Ready, Goto, Sharing, At
  <2>2. ~sharing'[u] /\ \A v \in Users \ {u} : ShareKept(v)
    BY <1>0, <2>1 DEF TypeOK, ShareKept
  <2> QED BY <1>2, <1>4, <2>1, <2>2 DEF SharePlaced
<1>16. ASSUME NEW s \in Users, WatchShare(u, s) PROVE Goal
  <2>1. /\ task[u].at = "idle" /\ task'[u].at = "watch_mark" /\ UNCHANGED <<sharers, sharing>>
    BY <1>3, <1>16 DEF WatchShare, Ready, Goto, Sharing, At
  <2> QED BY <1>6, <2>1 DEF Settled
<1>17. CASE StopWatching(u)
  <2>1. /\ task[u].at = "idle" /\ task'[u].at = "unwatch_remove" /\ UNCHANGED <<sharers, sharing>>
    BY <1>3, <1>17 DEF StopWatching, Ready, Goto, Sharing, At
  <2> QED BY <1>6, <2>1 DEF Settled
<1>18. CASE Quit(u)
  <2>1. /\ task[u].at = "idle" /\ task'[u].at = "quit_leave"
    BY <1>3, <1>18 DEF Quit, Ready, Goto, Leaving, At
  <2>2. CASE chan[u] = General
    <3>1. UNCHANGED <<sharers, sharing>> BY <1>18, <2>2 DEF Quit, shareVars
    <3> QED BY <1>6, <2>1, <2>2, <3>1
  <2>3. CASE chan[u] # General
    <3>1. CleanupShares(u, chan[u]) BY <1>18, <2>3 DEF Quit
    <3>2. /\ \A v \in Users \ {u} : ShareKept(v)
          /\ ~sharing'[u] /\ \A c \in Channel : u \notin sharers'[c]
      BY <1>4, <2>1, <3>1, CleanupEnds DEF Settled
    <3> QED BY <2>1, <3>2 DEF SharePlaced
  <2> QED BY <2>2, <2>3
<1> QED BY <1>7, <1>8, <1>9, <1>10, <1>11, <1>12, <1>13, <1>14, <1>15, <1>16, <1>17, <1>18
        DEF Request

\* A step of a handler.
LEMMA ContinueShares ==
    ASSUME IInv, SharesPlaced, NEW u \in Users, Continue(u)
    PROVE  SharesPlaced'
<1>0. TypeOK BY DEF IInv, Typed
<1>1. \A v \in Users \ {u} : task'[v] = task[v] BY ContinueTask DEF IInv
<1>2. chan \in [Users -> Channel] /\ task \in [Users -> Task] BY <1>0 DEF TypeOK
<1>3. SharePlaced(u) BY DEF SharesPlaced
<1>4. ASSUME \A v \in Users \ {u} : ShareKept(v) /\ chan'[v] = chan[v], SharePlaced(u)'
      PROVE  SharesPlaced'
  BY <1>1, <1>2, <1>4, ShareKeptPlaced DEF SharesPlaced
<1>5. ASSUME UNCHANGED <<sharers, sharing, chan>>,
             task'[u].at \notin {"share_insert", "share_remove", "create_join"},
             task[u].at \notin {"share_insert", "share_remove"},
             task'[u].at = "join_cleanup" => task'[u].old = chan[u],
             Settled(u) /\ chan[u] # General => Settled(u)'
      PROVE  SharesPlaced'
  <2>1. \A v \in Users : ShareKept(v) BY <1>5 DEF ShareKept
  <2> QED BY <1>2, <1>3, <1>4, <1>5, <2>1, ShareMoves
<1>6. CASE CreateJoin(u)
  <2>1. /\ task[u].at = "create_join" /\ task[u].ch # chan[u] /\ UNCHANGED <<sharers, sharing, chan>>
        /\ task' = [task EXCEPT ![u] = IF chan[u] \in {General, task[u].ch}
                              THEN Joining("join_leave", task[u].ch, task[u].pw, General)
                              ELSE Joining("join_cleanup", task[u].ch, task[u].pw, chan[u])]
    BY <1>3, <1>6 DEF CreateJoin, BeginJoin, Goto, shareVars, sessionVars, SharePlaced
  <2>2. CASE chan[u] = General
    <3>1. task'[u].at = "join_leave" BY <1>2, <2>1, <2>2 DEF Joining, At
    <3> QED BY <1>5, <2>1, <2>2, <3>1
  <2>3. CASE chan[u] # General
    <3>1. task'[u].at = "join_cleanup" /\ task'[u].old = chan[u]
      BY <1>2, <2>1, <2>3 DEF Joining, At
    <3> QED BY <1>5, <2>1, <3>1 DEF Settled
  <2> QED BY <2>2, <2>3
<1>7. CASE CreateJoinFails(u)
  <2>1. /\ task[u].at = "create_join" /\ task'[u].at = "idle"
        /\ UNCHANGED <<sharers, sharing, chan>>
    BY <1>2, <1>7 DEF CreateJoinFails, Goto, Resting, At, shareVars, sessionVars
  <2> QED BY <1>5, <2>1 DEF Settled
<1>8. CASE JoinCleanup(u)
  <2>1. /\ task[u].at = "join_cleanup" /\ task'[u].at = "join_leave" /\ chan' = chan
        /\ CleanupShares(u, task[u].old)
    BY <1>2, <1>8 DEF JoinCleanup, Goto, Joining, At, sessionVars
  <2>2. task[u].old = chan[u] BY <1>3, <2>1 DEF SharePlaced
  <2>3. /\ \A v \in Users \ {u} : ShareKept(v)
        /\ ~sharing'[u] /\ \A c \in Channel : u \notin sharers'[c]
    BY <1>3, <2>1, <2>2, CleanupEnds DEF Settled
  <2>4. SharePlaced(u)' BY <2>1, <2>3 DEF SharePlaced
  <2> QED BY <1>4, <2>1, <2>3, <2>4
<1>9. CASE JoinLeave(u) \/ QuitLeave(u)
  <2>1. /\ task[u].at \in {"join_leave", "quit_leave"} /\ UNCHANGED <<sharers, sharing, chan>>
    BY <1>9 DEF JoinLeave, QuitLeave, shareVars, sessionVars
  <2>2. task'[u].at \in {"join_enter", "join_timer", "quit_remove", "quit_timer"}
    BY <1>9, LeaveStep
  <2> QED BY <1>5, <2>1, <2>2 DEF Settled
<1>10. CASE JoinTimer(u) \/ JoinRefused(u) \/ QuitTimer(u) \/ QuitPurge(u)
  <2>1. /\ task[u].at \in {"join_timer", "join_enter", "quit_timer", "quit_purge"}
        /\ UNCHANGED <<sharers, sharing, chan>>
    BY <1>10 DEF JoinTimer, JoinRefused, QuitTimer, QuitPurge, shareVars, sessionVars
  <2>2. task'[u].at \in {"join_enter", "join_fallback", "quit_remove", "gone"}
    BY <1>2, <1>10
    DEF JoinTimer, JoinRefused, QuitTimer, QuitPurge, Goto, Joining, Leaving, Resting, At
  <2> QED BY <1>5, <2>1, <2>2 DEF Settled
<1>11. CASE JoinEnter(u) \/ JoinFallback(u)
  <2>1. /\ task[u].at \in {"join_enter", "join_fallback"} /\ UNCHANGED <<sharers, sharing>>
    BY <1>11 DEF JoinEnter, JoinFallback, shareVars
  <2>2. PICK c \in live : chan' = [chan EXCEPT ![u] = c] /\ task'[u].at = "idle"
    BY <1>11, EnterStep
  <2>3. ~sharing[u] /\ \A d \in Channel : u \notin sharers[d]
    BY <1>3, <2>1, NoShareYet DEF Settled
  <2>4. SharePlaced(u)' BY <2>1, <2>2, <2>3 DEF SharePlaced
  <2>5. \A v \in Users \ {u} : ShareKept(v) /\ chan'[v] = chan[v]
    BY <1>2, <2>1, <2>2 DEF ShareKept
  <2> QED BY <1>4, <2>4, <2>5
<1>12. ~KickMove(u) /\ ~KickTimer(u) BY DEF IInv, NoKicks, KickMove, KickTimer
<1>13. CASE ShareInsert(u)
  <2>1. task[u].at = "share_insert" BY <1>13 DEF ShareInsert
  <2>2. task[u].ch = chan[u] /\ sharing[u] /\ chan[u] # General /\ chan[u] \in Channel
    BY <1>2, <1>3, <2>1 DEF SharePlaced
  <2>3. chan[u] \in live
    BY <2>1 DEF IInv, Homed, HomeChannelHasUser, Settled, BeingMoved, NoKicks
  <2>4. /\ sharers' = [sharers EXCEPT ![chan[u]] = @ \cup {u}]
        /\ UNCHANGED <<sharing, chan>> /\ task'[u].at = "idle"
    BY <1>2, <1>13, <2>2, <2>3 DEF ShareInsert, Goto, Resting, At, sessionVars
  <2>5. /\ u \in sharers'[chan[u]]
        /\ \A c \in Channel : u \in sharers'[c] => c = chan[u]
        /\ \A v \in Users \ {u}, c \in Channel : v \in sharers'[c] <=> v \in sharers[c]
    BY <1>0, <1>3, <2>2, <2>4 DEF TypeOK, SharePlaced
  <2>6. SharePlaced(u)' BY <2>2, <2>4, <2>5 DEF SharePlaced, Settled
  <2> QED BY <1>4, <2>4, <2>5, <2>6 DEF ShareKept
<1>14. CASE ShareRemove(u)
  <2>1. task[u].at = "share_remove" BY <1>14 DEF ShareRemove
  <2>2. task[u].ch = chan[u] /\ ~sharing[u] /\ chan[u] \in Channel
    BY <1>2, <1>3, <2>1 DEF SharePlaced
  <2>3. chan[u] \in live
    BY <2>1 DEF IInv, Homed, HomeChannelHasUser, Settled, BeingMoved, NoKicks
  <2>4. /\ sharers' = IF u \in sharers[chan[u]]
                       THEN [sharers EXCEPT ![chan[u]] = @ \ {u}] ELSE sharers
        /\ UNCHANGED <<sharing, chan>> /\ task'[u].at = "idle"
    BY <1>2, <1>14, <2>2, <2>3 DEF ShareRemove, Goto, Resting, At, sessionVars
  <2>5. /\ \A c \in Channel : u \notin sharers'[c]
        /\ \A v \in Users \ {u}, c \in Channel : v \in sharers'[c] <=> v \in sharers[c]
    <3>1. \A c \in Channel : u \in sharers[c] => c = chan[u] BY <1>3 DEF SharePlaced
    <3>2. sharers \in [Channel -> SUBSET Users] BY <1>0 DEF TypeOK
    <3>3. CASE u \in sharers[chan[u]]
      <4>1. sharers' = [sharers EXCEPT ![chan[u]] = @ \ {u}] BY <2>4, <3>3
      <4> QED BY <2>2, <3>1, <3>2, <4>1
    <3>4. CASE u \notin sharers[chan[u]]
      <4>1. sharers' = sharers BY <2>4, <3>4
      <4> QED BY <3>1, <3>4, <4>1
    <3> QED BY <3>3, <3>4
  <2>6. SharePlaced(u)' BY <2>2, <2>4, <2>5 DEF SharePlaced
  <2> QED BY <1>4, <2>4, <2>5, <2>6 DEF ShareKept
<1>15. CASE WatchMark(u) \/ WatchInsert(u) \/ UnwatchRemove(u)
  <2>1. /\ task[u].at \in {"watch_mark", "watch_insert", "unwatch_remove"}
        /\ UNCHANGED <<sharers, sharing, chan>>
    BY <1>15 DEF WatchMark, WatchInsert, UnwatchRemove, sessionVars
  <2>2. task'[u].at \in {"watch_insert", "idle"}
    BY <1>2, <1>15 DEF WatchMark, WatchInsert, UnwatchRemove, Goto, Sharing, Resting, At
  <2> QED BY <1>5, <2>1, <2>2 DEF Settled
<1>16. CASE QuitRemove(u)
  <2>1. /\ task[u].at = "quit_remove" /\ task'[u].at = "quit_purge" /\ sharers' = sharers
        /\ sharing' = [sharing EXCEPT ![u] = FALSE] /\ chan' = [chan EXCEPT ![u] = General]
    BY <1>2, <1>16 DEF QuitRemove, Goto, Leaving, At
  <2>2. \A d \in Channel : u \notin sharers[d] BY <1>3, <2>1, NoShareYet DEF Settled
  <2>3. /\ ~sharing'[u]
        /\ \A v \in Users \ {u} : ShareKept(v) /\ chan'[v] = chan[v]
    BY <1>0, <2>1 DEF TypeOK, ShareKept
  <2>4. SharePlaced(u)' BY <2>1, <2>2, <2>3 DEF SharePlaced
  <2> QED BY <1>4, <2>3, <2>4
<1> QED BY <1>6, <1>7, <1>8, <1>9, <1>10, <1>11, <1>12, <1>13, <1>14, <1>15, <1>16 DEF Continue

\* Only an empty channel is deleted, and that one has no share.
LEMMA TimerShares ==
    ASSUME IInv, SharesPlaced, NEW c \in Channel, TimerFires(c)
    PROVE  SharesPlaced'
<1>0. TypeOK BY DEF IInv, Typed
<1>1. UNCHANGED <<sharing, chan, task>> BY DEF TimerFires, sessionVars
<1>2. \A v \in Users : ShareKept(v)
  <2>1. CASE Deletable(c)
    <3>1. sharers' = [sharers EXCEPT ![c] = {}] /\ members[c] = {}
      BY <2>1 DEF TimerFires, Deletable
    <3>2. ASSUME NEW v \in Users, v \in sharers[c] PROVE FALSE
      <4>1. chan[v] = c /\ Settled(v) BY <3>2 DEF SharesPlaced, SharePlaced, Settled
      <4>2. v \in members[c]
        BY <4>1 DEF IInv, Homed, HomeChannelHasUser, BeingMoved, NoKicks
      <4> QED BY <3>1, <4>2
    <3> QED BY <1>0, <1>1, <3>1, <3>2 DEF ShareKept, TypeOK
  <2>2. CASE ~Deletable(c) BY <1>1, <2>2 DEF TimerFires, ShareKept
  <2> QED BY <2>1, <2>2
<1> QED BY <1>0, <1>1, <1>2, ShareKeptPlaced DEF SharesPlaced, TypeOK

\* The invariant of the shares, and what it says.
LEMMA SharesInductive ==
    ASSUME "kick" \notin Ops, "rejoin" \notin Ops, IInv, SharesPlaced, [Next]_vars
    PROVE  SharesPlaced'
<1>1. CASE UNCHANGED vars
  <2>1. UNCHANGED <<sharers, sharing, chan, task>> BY <1>1 DEF vars, shareVars, sessionVars
  <2> QED BY <2>1 DEF SharesPlaced, SharePlaced, Settled
<1> QED BY <1>1, RequestShares, ContinueShares, TimerShares DEF Next

LEMMA SharesAlways ==
    ASSUME "kick" \notin Ops, "rejoin" \notin Ops
    PROVE  Spec => [](IInv /\ SharesPlaced)
<1>1. Init => SharesPlaced
  BY DEF Init, SharesPlaced, SharePlaced, Resting, At
<1>2. IInv /\ SharesPlaced /\ [Next]_vars => IInv' /\ SharesPlaced'
  BY PlacedInductive, ServedInductive, SharesInductive DEF IInv, Served
<1> QED BY <1>1, <1>2, InitIInv, PTL DEF Spec

\* A share belongs to a member of the channel, wherever a join, a disconnection or
\* a delete timer is; on a server nobody is kicked from, nor joins his own channel.
THEOREM SharesAlwaysOfMembers ==
    "kick" \notin Ops /\ "rejoin" \notin Ops => (Spec => []SharesOfMembers)
<1> SUFFICES ASSUME "kick" \notin Ops, "rejoin" \notin Ops PROVE Spec => []SharesOfMembers
  OBVIOUS
<1>1. IInv /\ SharesPlaced => SharesOfMembers
  <2> SUFFICES ASSUME IInv, SharesPlaced, NEW c \in live, NEW u \in sharers[c]
               PROVE  u \in members[c]
    BY DEF SharesOfMembers
  <2>1. c \in Channel /\ u \in Users BY DEF IInv, Typed, TypeOK
  <2>2. chan[u] = c /\ Settled(u) BY <2>1 DEF SharesPlaced, SharePlaced, Settled
  <2> QED BY <2>1, <2>2 DEF IInv, Homed, HomeChannelHasUser, BeingMoved, NoKicks
<1> QED BY <1>1, SharesAlways, PTL

\* Between two requests the flag of the session and the shares of the channels
\* agree, on the same servers.
THEOREM SharingFlagAlwaysMatches ==
    "kick" \notin Ops /\ "rejoin" \notin Ops => (Spec => []SharingFlagMatches)
<1> SUFFICES ASSUME "kick" \notin Ops, "rejoin" \notin Ops PROVE Spec => []SharingFlagMatches
  OBVIOUS
<1>1. IInv /\ SharesPlaced => SharingFlagMatches
  <2> SUFFICES ASSUME IInv, SharesPlaced, NEW u \in Users, task[u].at = "idle"
               PROVE  {c \in live : u \in sharers[c]} = IF sharing[u] THEN {chan[u]} ELSE {}
    BY DEF SharingFlagMatches, Ready
  <2>1. live \subseteq Channel BY DEF IInv, Typed, TypeOK
  <2>2. chan[u] \in live
    BY DEF IInv, Homed, HomeChannelHasUser, Settled, BeingMoved, NoKicks
  <2>3. \A c \in live : u \in sharers[c] => c = chan[u] /\ sharing[u]
    BY <2>1 DEF SharesPlaced, SharePlaced
  <2>4. sharing[u] => u \in sharers[chan[u]] BY DEF SharesPlaced, SharePlaced
  <2> QED BY <2>2, <2>3, <2>4
<1> QED BY <1>1, SharesAlways, PTL
=============================================================================
