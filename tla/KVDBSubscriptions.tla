------------------------- MODULE KVDBSubscriptions -------------------------
(***************************************************************************)
(* The subscription manager of KVDBClient (src/sdk/python/kvdb_client/     *)
(* client.py): the registry self._subscriptions (id -> thread), the id     *)
(* counter self._subscription_counter, the user threads that call          *)
(* subscribe / cancel_subscription / disconnect, and one receive-loop      *)
(* thread per subscription (subscription_thread) reading a server stream.  *)
(*                                                                         *)
(* Python code runs one bytecode at a time under the GIL, so every dict    *)
(* membership test, dict store and dict delete is atomic, but a test and   *)
(* the delete that follows it, or the read and the store of `+= 1`, are    *)
(* separate steps another thread may run between.  Each such step is one   *)
(* action here, with the thread's program counter naming the statement it  *)
(* is about to run.                                                        *)
(*                                                                         *)
(* A stream event is abstracted to one bit: whether the server emitted it  *)
(* after the user's cancel_subscription call for that subscription had     *)
(* returned (a ghost the code does not keep).                              *)
(***************************************************************************)
EXTENDS Naturals, Sequences, FiniteSets

CONSTANTS
    Users,      \* application threads sharing one KVDBClient
    MaxSubs,    \* bound on the number of subscribe() calls (threads created)
    MaxEvents   \* bound on the events the server pushes into one stream

ASSUME /\ Users # {}
       /\ MaxSubs \in Nat \ {0}
       /\ MaxEvents \in Nat

Ids   == 0 .. MaxSubs - 1    \* values subscription_id can take
Loops == 1 .. MaxSubs        \* receive-loop threads, in creation order
NoLoop == 0                  \* "id not in self._subscriptions"

VARIABLES
    subs,       \* self._subscriptions : Ids -> Loops \cup {NoLoop}
    counter,    \* self._subscription_counter
    connected,  \* self._connected
    chanOpen,   \* the gRPC channel self._channel has not been closed
    nloops,     \* number of subscription threads created so far
    upc,        \* user thread program counter
    usid,       \* user local: subscription_id in subscribe
    utmp,       \* user local: counter value loaded by `+= 1`
    ucur,       \* user local: id being cancelled
    utodo,      \* user local: keys still to cancel in disconnect
    uids,       \* ids subscribe() has returned to this user
    lpc,        \* receive-loop program counter
    lsid,       \* subscription_id captured by the loop's closure
    inbox,      \* events received by the stream and not yet read
    ended,      \* the server has ended the stream
    emitted,    \* events pushed into the stream so far
    cur,        \* the event the loop is handling
    cancelReq   \* ghost: a cancel of this loop's id has returned

userVars   == <<usid, utmp, ucur, utodo, uids>>
loopVars   == <<lsid, inbox, ended, emitted, cur>>
vars == <<subs, counter, connected, chanOpen, nloops, upc, userVars,
          lpc, loopVars, cancelReq>>

UserPcs == {"idle", "sub_load", "sub_store", "sub_start",
            "cancel_del", "disc_loop", "disc_del"}
LoopPcs == {"unstarted", "recv", "check", "callback",
            "finally_check", "finally_del", "done"}

Started(t) == t <= nloops
Live(t)    == lpc[t] \in {"recv", "check", "callback"}
Registered(id) == subs[id] # NoLoop
\* Users between line 556 and the return of subscribe(): each will create
\* one more thread, which the bound MaxSubs has to leave room for.
Subscribing == {u \in Users : upc[u] \in {"sub_load", "sub_store", "sub_start"}}

\* The ghost effect of a cancel_subscription(id) call returning: every
\* subscription created so far under that id is what the caller cancelled.
MarkCancelled(id) ==
    cancelReq' = [t \in Loops |-> cancelReq[t] \/ (Started(t) /\ lsid[t] = id)]

Init ==
    /\ subs = [id \in Ids |-> NoLoop]
    /\ counter = 0
    /\ connected = FALSE
    /\ chanOpen = TRUE                      \* _init_grpc creates the channel
    /\ nloops = 0
    /\ upc = [u \in Users |-> "idle"]
    /\ usid = [u \in Users |-> 0]
    /\ utmp = [u \in Users |-> 0]
    /\ ucur = [u \in Users |-> 0]
    /\ utodo = [u \in Users |-> {}]
    /\ uids = [u \in Users |-> {}]
    /\ lpc = [t \in Loops |-> "unstarted"]
    /\ lsid = [t \in Loops |-> 0]
    /\ inbox = [t \in Loops |-> <<>>]
    /\ ended = [t \in Loops |-> FALSE]
    /\ emitted = [t \in Loops |-> 0]
    /\ cur = [t \in Loops |-> FALSE]
    /\ cancelReq = [t \in Loops |-> FALSE]

-----------------------------------------------------------------------------
(* connect(): the channel-ready probe succeeds only on an open channel;   *)
(* a failed probe raises ConnectionError and changes nothing.             *)
Connect(u) ==
    /\ upc[u] = "idle"
    /\ chanOpen
    /\ connected' = TRUE
    /\ UNCHANGED <<subs, counter, chanOpen, nloops, upc, userVars,
                   lpc, loopVars, cancelReq>>

\* Mutant: ids handed out from one past the counter (pre-increment).
SubReadOffByOne(u) ==
    /\ upc[u] = "idle"
    /\ nloops + Cardinality(Subscribing) < MaxSubs
    /\ usid' = [usid EXCEPT ![u] = counter + 1]
    /\ upc' = [upc EXCEPT ![u] = "sub_load"]
    /\ UNCHANGED <<subs, counter, connected, chanOpen, nloops, utmp, ucur,
                   utodo, uids, lpc, loopVars, cancelReq>>

(* subscribe(), line 556: subscription_id = self._subscription_counter    *)
SubRead(u) ==
    /\ upc[u] = "idle"
    /\ nloops + Cardinality(Subscribing) < MaxSubs
    /\ usid' = [usid EXCEPT ![u] = counter]
    /\ upc' = [upc EXCEPT ![u] = "sub_load"]
    /\ UNCHANGED <<subs, counter, connected, chanOpen, nloops, utmp, ucur,
                   utodo, uids, lpc, loopVars, cancelReq>>

(* line 557, first half of `self._subscription_counter += 1`: the load     *)
SubLoad(u) ==
    /\ upc[u] = "sub_load"
    /\ utmp' = [utmp EXCEPT ![u] = counter]
    /\ upc' = [upc EXCEPT ![u] = "sub_store"]
    /\ UNCHANGED <<subs, counter, connected, chanOpen, nloops, usid, ucur,
                   utodo, uids, lpc, loopVars, cancelReq>>

(* line 557, second half: the store of the incremented value              *)
SubStore(u) ==
    /\ upc[u] = "sub_store"
    /\ counter' = utmp[u] + 1
    /\ upc' = [upc EXCEPT ![u] = "sub_start"]
    /\ UNCHANGED <<subs, connected, chanOpen, nloops, userVars,
                   lpc, loopVars, cancelReq>>

(* lines 577-581: create the thread, register it under the id, start it,  *)
(* return the id to the caller.                                           *)
SubStart(u) ==
    LET t == nloops + 1 IN
    /\ upc[u] = "sub_start"
    /\ nloops' = t
    /\ subs' = [subs EXCEPT ![usid[u]] = t]
    /\ lsid' = [lsid EXCEPT ![t] = usid[u]]
    /\ lpc' = [lpc EXCEPT ![t] = "recv"]
    /\ uids' = [uids EXCEPT ![u] = @ \cup {usid[u]}]
    /\ upc' = [upc EXCEPT ![u] = "idle"]
    /\ UNCHANGED <<counter, connected, chanOpen, usid, utmp, ucur, utodo,
                   inbox, ended, emitted, cur, cancelReq>>

(* cancel_subscription(id), line 585: `if subscription_id in ...`.        *)
(* When absent the call returns at once.                                  *)
CancelCheck(u) ==
    /\ upc[u] = "idle"
    /\ \E id \in uids[u] :
         IF Registered(id)
         THEN /\ ucur' = [ucur EXCEPT ![u] = id]
              /\ upc' = [upc EXCEPT ![u] = "cancel_del"]
              /\ UNCHANGED cancelReq
         ELSE /\ MarkCancelled(id)
              /\ UNCHANGED <<ucur, upc>>
    /\ UNCHANGED <<subs, counter, connected, chanOpen, nloops, usid, utmp,
                   utodo, uids, lpc, loopVars>>

\* Mutant: the del hits a copy of the registry; the entry stays.
CancelDelOnCopy(u) ==
    /\ upc[u] = "cancel_del"
    /\ MarkCancelled(ucur[u])
    /\ upc' = [upc EXCEPT ![u] = "idle"]
    /\ UNCHANGED <<subs, counter, connected, chanOpen, nloops, userVars,
                   lpc, loopVars>>

(* line 586: `del self._subscriptions[subscription_id]`.  If the receive  *)
(* loop's finally removed the key since the test, the del raises KeyError *)
(* out of cancel_subscription: the registry is unchanged and the call has *)
(* not returned normally.                                                 *)
CancelDel(u) ==
    /\ upc[u] = "cancel_del"
    /\ IF Registered(ucur[u])
       THEN /\ subs' = [subs EXCEPT ![ucur[u]] = NoLoop]
            /\ MarkCancelled(ucur[u])
       ELSE UNCHANGED <<subs, cancelReq>>
    /\ upc' = [upc EXCEPT ![u] = "idle"]
    /\ UNCHANGED <<counter, connected, chanOpen, nloops, userVars,
                   lpc, loopVars>>

(* disconnect(), lines 102-105: clear _connected, snapshot the keys.      *)
DiscStart(u) ==
    /\ upc[u] = "idle"
    /\ connected' = FALSE
    /\ utodo' = [utodo EXCEPT ![u] = {id \in Ids : Registered(id)}]
    /\ upc' = [upc EXCEPT ![u] = "disc_loop"]
    /\ UNCHANGED <<subs, counter, chanOpen, nloops, usid, utmp, ucur, uids,
                   lpc, loopVars, cancelReq>>

(* line 106: cancel_subscription on the next key, in dict (ascending id)  *)
(* order; its membership test.                                            *)
DiscNext(u) ==
    LET id == CHOOSE i \in utodo[u] : \A j \in utodo[u] : i <= j IN
    /\ upc[u] = "disc_loop"
    /\ utodo[u] # {}
    /\ utodo' = [utodo EXCEPT ![u] = @ \ {id}]
    /\ IF Registered(id)
       THEN /\ ucur' = [ucur EXCEPT ![u] = id]
            /\ upc' = [upc EXCEPT ![u] = "disc_del"]
            /\ UNCHANGED cancelReq
       ELSE /\ MarkCancelled(id)
            /\ UNCHANGED <<ucur, upc>>
    /\ UNCHANGED <<subs, counter, connected, chanOpen, nloops, usid, utmp,
                   uids, lpc, loopVars>>

(* line 586 inside disconnect: the del.  A KeyError propagates out of     *)
(* disconnect, skipping the remaining cancels and the channel close.      *)
DiscDel(u) ==
    /\ upc[u] = "disc_del"
    /\ MarkCancelled(ucur[u])
    /\ IF Registered(ucur[u])
       THEN /\ subs' = [subs EXCEPT ![ucur[u]] = NoLoop]
            /\ upc' = [upc EXCEPT ![u] = "disc_loop"]
       ELSE /\ upc' = [upc EXCEPT ![u] = "idle"]
            /\ UNCHANGED subs
    /\ UNCHANGED <<counter, connected, chanOpen, nloops, userVars,
                   lpc, loopVars>>

(* lines 108-109: close the channel once every key has been handled.      *)
DiscClose(u) ==
    /\ upc[u] = "disc_loop"
    /\ utodo[u] = {}
    /\ chanOpen' = FALSE
    /\ upc' = [upc EXCEPT ![u] = "idle"]
    /\ UNCHANGED <<subs, counter, connected, nloops, userVars,
                   lpc, loopVars, cancelReq>>

-----------------------------------------------------------------------------
\* Mutant: a closed channel does not fail the open stream read.
LoopRecvIgnoresClose(t) ==
    /\ lpc[t] = "recv"
    /\ \/ /\ inbox[t] # <<>>
          /\ cur' = [cur EXCEPT ![t] = Head(inbox[t])]
          /\ inbox' = [inbox EXCEPT ![t] = Tail(@)]
          /\ lpc' = [lpc EXCEPT ![t] = "check"]
       \/ /\ ended[t]
          /\ inbox[t] = <<>>
          /\ lpc' = [lpc EXCEPT ![t] = "finally_check"]
          /\ UNCHANGED <<cur, inbox>>
    /\ UNCHANGED <<subs, counter, connected, chanOpen, nloops, upc, userVars,
                   lsid, ended, emitted, cancelReq>>

(* subscription_thread, line 566: the next item of the response stream.   *)
(* A buffered event is read; a closed channel raises RpcError (or, for a  *)
(* stream opened on a closed channel, ValueError), and a stream the       *)
(* server ended stops the for loop; all three leave for the finally.      *)
LoopRecv(t) ==
    /\ lpc[t] = "recv"
    /\ \/ /\ inbox[t] # <<>>
          /\ cur' = [cur EXCEPT ![t] = Head(inbox[t])]
          /\ inbox' = [inbox EXCEPT ![t] = Tail(@)]
          /\ lpc' = [lpc EXCEPT ![t] = "check"]
       \/ /\ ~chanOpen
          /\ lpc' = [lpc EXCEPT ![t] = "finally_check"]
          /\ UNCHANGED <<cur, inbox>>
       \/ /\ ended[t]
          /\ inbox[t] = <<>>
          /\ lpc' = [lpc EXCEPT ![t] = "finally_check"]
          /\ UNCHANGED <<cur, inbox>>
    /\ UNCHANGED <<subs, counter, connected, chanOpen, nloops, upc, userVars,
                   lsid, ended, emitted, cancelReq>>

\* Mutant: the loop forwards every event without the registry test.
LoopCheckNoRegistryTest(t) ==
    /\ lpc[t] = "check"
    /\ lpc' = [lpc EXCEPT ![t] = "callback"]
    /\ UNCHANGED <<subs, counter, connected, chanOpen, nloops, upc, userVars,
                   loopVars, cancelReq>>

\* Mutant: `continue` for `break`: a cancelled loop drops the event and
\* reads on.
LoopCheckContinue(t) ==
    /\ lpc[t] = "check"
    /\ lpc' = [lpc EXCEPT ![t] = IF Registered(lsid[t]) THEN "callback"
                                                       ELSE "recv"]
    /\ UNCHANGED <<subs, counter, connected, chanOpen, nloops, upc, userVars,
                   loopVars, cancelReq>>

(* lines 567-568: `if subscription_id not in self._subscriptions: break`  *)
LoopCheck(t) ==
    /\ lpc[t] = "check"
    /\ lpc' = [lpc EXCEPT ![t] = IF Registered(lsid[t]) THEN "callback"
                                                       ELSE "finally_check"]
    /\ UNCHANGED <<subs, counter, connected, chanOpen, nloops, upc, userVars,
                   loopVars, cancelReq>>

(* line 569: the user callback; it returns, or raises an exception that   *)
(* is not an RpcError and so leaves through the finally.                  *)
LoopCallback(t) ==
    /\ lpc[t] = "callback"
    /\ \E next \in {"recv", "finally_check"} : lpc' = [lpc EXCEPT ![t] = next]
    /\ UNCHANGED <<subs, counter, connected, chanOpen, nloops, upc, userVars,
                   loopVars, cancelReq>>

(* line 574: `if subscription_id in self._subscriptions:`                 *)
LoopFinallyCheck(t) ==
    /\ lpc[t] = "finally_check"
    /\ lpc' = [lpc EXCEPT ![t] = IF Registered(lsid[t]) THEN "finally_del"
                                                       ELSE "done"]
    /\ UNCHANGED <<subs, counter, connected, chanOpen, nloops, upc, userVars,
                   loopVars, cancelReq>>

(* line 575: `del self._subscriptions[subscription_id]`, of whatever      *)
(* thread the id now maps to; a KeyError here ends the thread as well.    *)
LoopFinallyDel(t) ==
    /\ lpc[t] = "finally_del"
    /\ subs' = [subs EXCEPT ![lsid[t]] = NoLoop]
    /\ lpc' = [lpc EXCEPT ![t] = "done"]
    /\ UNCHANGED <<counter, connected, chanOpen, nloops, upc, userVars,
                   loopVars, cancelReq>>

-----------------------------------------------------------------------------
(* The server side of the Subscribe stream (environment): it pushes an    *)
(* event into an open stream, or ends the stream.                         *)
ServerPush(t) ==
    /\ Started(t)
    /\ lpc[t] # "done"
    /\ chanOpen
    /\ ~ended[t]
    /\ emitted[t] < MaxEvents
    /\ inbox' = [inbox EXCEPT ![t] = Append(@, cancelReq[t])]
    /\ emitted' = [emitted EXCEPT ![t] = @ + 1]
    /\ UNCHANGED <<subs, counter, connected, chanOpen, nloops, upc, userVars,
                   lpc, lsid, ended, cur, cancelReq>>

ServerEnd(t) ==
    /\ Started(t)
    /\ lpc[t] # "done"
    /\ ~ended[t]
    /\ ended' = [ended EXCEPT ![t] = TRUE]
    /\ UNCHANGED <<subs, counter, connected, chanOpen, nloops, upc, userVars,
                   lpc, lsid, inbox, emitted, cur, cancelReq>>

-----------------------------------------------------------------------------
UserStep(u) ==
    \/ Connect(u) \/ SubRead(u) \/ SubLoad(u) \/ SubStore(u) \/ SubStart(u)
    \/ CancelCheck(u) \/ CancelDel(u)
    \/ DiscStart(u) \/ DiscNext(u) \/ DiscDel(u) \/ DiscClose(u)

\* The steps of a call already under way: the thread scheduler runs them.
UserContinue(u) ==
    \/ SubLoad(u) \/ SubStore(u) \/ SubStart(u) \/ CancelDel(u)
    \/ DiscNext(u) \/ DiscDel(u) \/ DiscClose(u)

LoopStep(t) ==
    \/ LoopRecv(t) \/ LoopCheck(t) \/ LoopCallback(t)
    \/ LoopFinallyCheck(t) \/ LoopFinallyDel(t)

Next ==
    \/ \E u \in Users : UserStep(u)
    \/ \E t \in Loops : LoopStep(t) \/ ServerPush(t) \/ ServerEnd(t)

(* Python threads that are runnable are eventually scheduled: weak        *)
(* fairness for every receive loop and for a user call in progress.  The  *)
(* application starting a call, and the server pushing or ending a        *)
(* stream, are not assumed to happen.                                     *)
Spec ==
    /\ Init /\ [][Next]_vars
    /\ \A u \in Users : WF_vars(UserContinue(u))
    /\ \A t \in Loops : WF_vars(LoopStep(t))

-----------------------------------------------------------------------------
TypeOK ==
    /\ subs \in [Ids -> Loops \cup {NoLoop}]
    /\ counter \in 0 .. MaxSubs
    /\ connected \in BOOLEAN /\ chanOpen \in BOOLEAN
    /\ nloops \in 0 .. MaxSubs
    /\ upc \in [Users -> UserPcs]
    /\ usid \in [Users -> Ids] /\ utmp \in [Users -> Ids]
    /\ ucur \in [Users -> Ids] /\ utodo \in [Users -> SUBSET Ids]
    /\ uids \in [Users -> SUBSET Ids]
    /\ lpc \in [Loops -> LoopPcs] /\ lsid \in [Loops -> Ids]
    /\ \A t \in Loops : inbox[t] \in Seq(BOOLEAN) /\ Len(inbox[t]) <= MaxEvents
    /\ ended \in [Loops -> BOOLEAN] /\ emitted \in [Loops -> 0 .. MaxEvents]
    /\ cur \in [Loops -> BOOLEAN] /\ cancelReq \in [Loops -> BOOLEAN]

(* Cancellation (spec 4.4, 8): once cancel_subscription(id) has returned, *)
(* no event the server pushes afterwards reaches that subscription's      *)
(* callback.  The loop's registry test at line 567 is what stops it.      *)
NoCallbackAfterCancel ==
    \A t \in Loops : lpc[t] = "callback" => ~cur[t]

(* Spec 5: cancellation is cooperative, the loop notices it when the next *)
(* event arrives.  Once cancel_subscription has removed a loop's id and   *)
(* an event is waiting on its stream, the loop's registry test (567)      *)
(* makes it leave the for loop and its thread ends.                       *)
CancelledLoopExits ==
    \A t \in Loops : (cancelReq[t] /\ inbox[t] # <<>>) ~> (lpc[t] = "done")

LoopsDone == \A t \in Loops : Started(t) => lpc[t] = "done"

(* Closing the channel (disconnect, line 109) ends every receive loop,    *)
(* even one blocked in the stream read with no event coming.              *)
ChannelCloseEndsLoops == ~chanOpen ~> LoopsDone

(* Spec 3: subscriptions must not outlive the client connection: every    *)
(* disconnect() call is followed by the end of every receive loop.        *)
DisconnectEndsLoops ==
    \A u \in Users : (upc[u] = "disc_loop") ~> LoopsDone

=============================================================================
