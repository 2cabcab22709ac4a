------------------------------ MODULE Accounts -------------------------------
(***************************************************************************)
(* The accounts, the black list, and the handlers that change them: those  *)
(* of the management server, the part of RequestLogin that decides whether *)
(* a connection is let in, and a guard's refusal of a visit.               *)
(*                                                                         *)
(* Handlers run on several threads.  Each call of AccountManager and of    *)
(* BlackList is under its mutex; a handler is one step except where others *)
(* between two of its calls matter: a login decides first and binds the    *)
(* account later, and a block is entered first and its users kicked out    *)
(* later.  One clock stands for the milliseconds of ids and the seconds of *)
(* the black list, and a call reads it inside its critical section.        *)
(***************************************************************************)
EXTENDS Naturals, FiniteSets

CONSTANTS Connections, Addresses, peerIP, \* peerIP[c] is the address of connection c
          Names,
          MaxCounter,               \* 8191, the ids of a millisecond less one
          MaxFailures,              \* 5
          Minute, Hour,             \* DURING_MINUTE and DURING_HOUR, the two windows
          MinuteBlock, HourBlock,   \* 300 and 3600 seconds
          Duration,                 \* a manager's block
          \* Bounds: time, ids, accounts at a time, failures counted, managers' blocks at a time.
          MaxClock, MaxIds, MaxAccounts, MaxEntries, MaxBlocks

ASSUME ParametersOK ==
  /\ peerIP \in [Connections -> Addresses]
  /\ MaxCounter \in Nat /\ MaxFailures \in Nat \ {0, 1}
  /\ {Minute, Hour} \subseteq Nat \ {0} /\ {MinuteBlock, HourBlock, Duration} \subseteq Nat
  /\ Hour % Minute = 0 /\ Names # {}
ASSUME BoundsOK == MaxClock \in Nat \ {0}

VARIABLES
  accounts,            \* the table `user`: rows [id, account, disabled]
  lastTime, counter,   \* the static variables of generateUserID
  statuses,            \* m_statuses: from an address or an account's id to its entry
  session,             \* each connection: where its login is, its account, open or not
  kicking,             \* the targets a manager blocked and has not kicked out yet
  clock, crash,
  issued, repeated, wrapped,   \* history: the ids, whether one was issued twice, whether
                               \* the counter was ever exhausted
  failures, blocks, raced      \* history: the failures counted; what a manager has blocked,
                               \* and until when; logins decided upon before such a block

ids == <<lastTime, counter, issued, repeated, wrapped>>
list == <<statuses, failures, blocks>>
vars == <<accounts, ids, list, session, kicking, clock, crash, raced>>

None == <<>>     \* no account, no entries; an id is a pair of a time and a counter
Ids == (0..MaxClock + 1) \X (0..MaxCounter)

\* An account the database may hold already, disabled.
OldAccount == [id |-> <<0, 0>>, account |-> CHOOSE n \in Names : TRUE, disabled |-> TRUE]

Init ==
  /\ accounts \in SUBSET {OldAccount} /\ lastTime = 0 /\ counter = 0 /\ statuses = None
  /\ session = [c \in Connections |-> [pc |-> "none", id |-> None, open |-> FALSE]]
  /\ kicking = {} /\ clock = 1 /\ crash = FALSE
  /\ issued = {} /\ repeated = FALSE /\ wrapped = FALSE
  /\ failures = {} /\ blocks = {} /\ raced = {}

-----------------------------------------------------------------------------
(* The black list. *)

Window(t, w) == t \div w            \* fillForTime
Known(key) == key \in DOMAIN statuses
Put(key, s) == [k \in DOMAIN statuses \cup {key} |-> IF k = key THEN s ELSE statuses[k]]
Of(key, set) == {x \in set : x.key = key}

\* BlackList::check
Allowed(key) == Known(key) => ~(statuses[key].blocked /\ statuses[key].until >= clock)

\* An entry with its first failure, of type "ip" or "account".
NewEntry(type) ==
  [type |-> type, blocked |-> FALSE, until |-> 0,
   m |-> 1, mFor |-> Window(clock, Minute), h |-> 1, hFor |-> Window(clock, Hour)]

\* Mutant: the minute's window has the last word.
CountedMinuteLast(s) ==
  LET m == IF s.mFor = Window(clock, Minute) THEN s.m + 1 ELSE 1
      h == IF s.hFor = Window(clock, Hour) THEN s.h + 1 ELSE 1
  IN [s EXCEPT !.m = m, !.mFor = Window(clock, Minute), !.h = h, !.hFor = Window(clock, Hour),
               !.blocked = @ \/ m >= MaxFailures \/ h >= MaxFailures,
               !.until = IF m >= MaxFailures THEN clock + MinuteBlock
                         ELSE IF h >= MaxFailures THEN clock + HourBlock ELSE @]

\* One more failure of an entry, in its two windows, of which the hour's has the last word
\* on how long the target is blocked.
Counted(s) ==
  LET m == IF s.mFor = Window(clock, Minute) THEN s.m + 1 ELSE 1
      h == IF s.hFor = Window(clock, Hour) THEN s.h + 1 ELSE 1
  IN [s EXCEPT !.m = m, !.mFor = Window(clock, Minute), !.h = h, !.hFor = Window(clock, Hour),
               !.blocked = @ \/ m >= MaxFailures \/ h >= MaxFailures,
               !.until = IF h >= MaxFailures THEN clock + HourBlock
                         ELSE IF m >= MaxFailures THEN clock + MinuteBlock ELSE @]

\* BlackList::increase. The new end of the block replaces a manager's.
Increase(key, type) ==
  /\ Cardinality(failures) < MaxEntries
  /\ statuses' = Put(key, IF Known(key) THEN Counted(statuses[key]) ELSE NewEntry(type))
  /\ failures' = failures \cup
       {[key |-> key, time |-> clock, no |-> Cardinality(Of(key, failures))]}
  /\ blocks' = IF statuses'[key].until = (IF Known(key) THEN statuses[key].until ELSE 0)
               THEN blocks ELSE blocks \ Of(key, blocks)

\* BlackList::addIPAddress and addAccount, which both enter TYPE_IP_ADDRESS.
Block(key) ==
  LET s == IF Known(key) THEN statuses[key] ELSE NewEntry("ip") IN
  /\ Cardinality(blocks) < MaxBlocks /\ Cardinality(kicking) < MaxBlocks
  /\ statuses' = Put(key, [s EXCEPT !.blocked = TRUE, !.until = clock + Duration])
  /\ blocks' = (blocks \ Of(key, blocks)) \cup {[key |-> key, until |-> clock + Duration]}
  /\ UNCHANGED failures

\* BlackList::remove
Remove(key) ==
  /\ Known(key)
  /\ statuses' = [k \in DOMAIN statuses \ {key} |-> statuses[k]]
  /\ failures' = failures \ Of(key, failures) /\ blocks' = blocks \ Of(key, blocks)

-----------------------------------------------------------------------------
(* generateUserID *)

\* Mutant: the counter goes one too far, and the mask makes a 0 of it.
GeneratedOneMore ==
  IF clock > lastTime THEN [id |-> <<clock, 0>>, time |-> clock, counter |-> 0]
  ELSE IF counter <= MaxCounter
  THEN [id |-> <<lastTime, (counter + 1) % (MaxCounter + 1)>>, time |-> lastTime,
        counter |-> counter + 1]
  ELSE [id |-> <<lastTime + 1, 0>>, time |-> lastTime, counter |-> 0]

\* The id and the new static variables: a counter that is exhausted begins again at the
\* next millisecond, which is not remembered.
Generated ==
  IF clock > lastTime THEN [id |-> <<clock, 0>>, time |-> clock, counter |-> 0]
  ELSE IF counter < MaxCounter
  THEN [id |-> <<lastTime, counter + 1>>, time |-> lastTime, counter |-> counter + 1]
  ELSE [id |-> <<lastTime + 1, 0>>, time |-> lastTime, counter |-> 0]

\* RequestAddAccount: no check whether the name is taken.
AddAccount(name) ==
  /\ Cardinality(issued) < MaxIds /\ Cardinality(accounts) < MaxAccounts
  /\ accounts' = accounts \cup {[id |-> Generated.id, account |-> name, disabled |-> FALSE]}
  /\ lastTime' = Generated.time /\ counter' = Generated.counter
  /\ issued' = issued \cup {Generated.id}
  /\ repeated' = (repeated \/ Generated.id \in issued)
  /\ wrapped' = (wrapped \/ Generated.id[1] > Generated.time)
  /\ UNCHANGED <<list, session, kicking, clock, crash, raced>>

\* AccountManager::enableAccount
Enable(name) ==
  accounts' = {IF a.account = name THEN [a EXCEPT !.disabled = FALSE] ELSE a : a \in accounts}

EnableAccount(name) ==
  /\ Enable(name)
  /\ UNCHANGED <<ids, list, session, kicking, clock, crash, raced>>

\* The handler of RequestDisableAccount enables the account, and kicks nobody out.
DisableAccount(name) ==
  /\ Enable(name)
  /\ UNCHANGED <<ids, list, session, kicking, clock, crash, raced>>

\* The account's users are not kicked out.
DeleteAccount(name) ==
  /\ accounts' = {a \in accounts : a.account # name}
  /\ UNCHANGED <<ids, list, session, kicking, clock, crash, raced>>

-----------------------------------------------------------------------------
(* The black list's handlers. *)

BlockAccount(id) ==
  /\ \E a \in accounts : a.id = id
  /\ Block(id) /\ kicking' = kicking \cup {id}
  /\ UNCHANGED <<accounts, ids, session, clock, crash, raced>>

BlockAddress(ip) ==
  /\ Block(ip) /\ kicking' = kicking \cup {ip}
  /\ UNCHANGED <<accounts, ids, session, clock, crash, raced>>

Close(set) == [c \in Connections |-> IF c \in set THEN [session[c] EXCEPT !.open = FALSE]
                                                  ELSE session[c]]

\* Mutant: a kick-out looks at the accounts only.
KickOutAccount(target) ==
  /\ target \in kicking /\ kicking' = kicking \ {target}
  /\ session' = Close({c \in Connections : session[c].pc = "in" /\ session[c].id = target})
  /\ raced' = raced \cup {c \in Connections : session[c].pc = "decided" /\ session[c].id = target}
  /\ UNCHANGED <<accounts, ids, list, clock, crash>>

\* ServerBase::kickout: the connections of an address, or those an account is bound to. A
\* login that is decided and not yet bound is not found.
KickOut(target) ==
  /\ target \in kicking /\ kicking' = kicking \ {target}
  /\ session' = Close({c \in Connections :
       peerIP[c] = target \/ (session[c].pc = "in" /\ session[c].id = target)})
  /\ raced' = raced \cup {c \in Connections : session[c].pc = "decided" /\ session[c].id = target}
  /\ UNCHANGED <<accounts, ids, list, clock, crash>>

Unblock(key) ==
  /\ Remove(key)
  /\ UNCHANGED <<accounts, ids, session, kicking, clock, crash, raced>>

\* listIPAddresses takes the address of an account's entry that has the type of an address:
\* std::get throws, and nobody catches.
ListAddresses ==
  /\ crash' = \E key \in DOMAIN statuses \ Addresses :
                statuses[key].type = "ip" /\ statuses[key].blocked
  /\ UNCHANGED <<accounts, ids, list, session, kicking, clock, raced>>

-----------------------------------------------------------------------------
(* Connections. *)

Connect(c) ==
  /\ session[c].pc = "none"
  /\ session' = [session EXCEPT ![c] = [pc |-> "new", id |-> None, open |-> TRUE]]
  /\ UNCHANGED <<accounts, ids, list, kicking, clock, crash, raced>>

\* RequestLogin up to the password, for an account that may be in the table more than once.
\* Its other errors change nothing.
Login(c, name) ==
  /\ session[c].pc = "new" /\ Allowed(peerIP[c])
  /\ \E a \in accounts :
       /\ a.account = name /\ Allowed(a.id) /\ ~a.disabled
       /\ session' = [session EXCEPT ![c].pc = "decided", ![c].id = a.id]
  /\ UNCHANGED <<accounts, ids, list, kicking, clock, crash, raced>>

\* RequestLogin with an empty key or a wrong password: a failure of the address. The
\* connection may try again.
LoginFails(c) ==
  /\ session[c].pc = "new" /\ Allowed(peerIP[c])
  /\ Increase(peerIP[c], "ip")
  /\ UNCHANGED <<accounts, ids, session, kicking, clock, crash, raced>>

\* RequestLogin, after the rooms: bindUser.
Bind(c) ==
  /\ session[c].pc = "decided" /\ session' = [session EXCEPT ![c].pc = "in"]
  /\ UNCHANGED <<accounts, ids, list, kicking, clock, crash, raced>>

\* A message that cannot be decrypted or parsed; RequestLogin looks at the address first.
BadMessage(c) ==
  /\ session[c].pc = "in" \/ (session[c].pc = "new" /\ Allowed(peerIP[c]))
  /\ Increase(peerIP[c], "ip") /\ session' = Close({c})
  /\ UNCHANGED <<accounts, ids, kicking, clock, crash, raced>>

\* A guard refuses the visit of c, which may have gone on to be disconnected.
RefuseVisit(c) ==
  /\ session[c].pc = "in" /\ Increase(session[c].id, "account")
  /\ UNCHANGED <<accounts, ids, session, kicking, clock, crash, raced>>

\* The peer leaves; the clean-up ends the session and another may use the connection.
Leave(c) ==
  /\ session[c].open /\ session' = Close({c})
  /\ UNCHANGED <<accounts, ids, list, kicking, clock, crash, raced>>

Clean(c) ==
  /\ session[c].pc \in {"new", "in"} /\ ~session[c].open
  /\ session' = [session EXCEPT ![c] = [pc |-> "none", id |-> None, open |-> FALSE]]
  /\ raced' = raced \ {c}
  /\ UNCHANGED <<accounts, ids, list, kicking, clock, crash>>

Tick ==
  /\ clock < MaxClock /\ clock' = clock + 1
  /\ UNCHANGED <<accounts, ids, list, session, kicking, crash, raced>>

-----------------------------------------------------------------------------
Manage ==
  \/ \E n \in Names : AddAccount(n) \/ EnableAccount(n) \/ DisableAccount(n) \/ DeleteAccount(n)
  \/ \E id \in issued : BlockAccount(id)
  \/ \E ip \in Addresses : BlockAddress(ip)
  \/ \E key \in kicking : KickOut(key)
  \/ \E key \in DOMAIN statuses : Unblock(key)
  \/ ListAddresses

Session(c) ==
  Connect(c) \/ (\E n \in Names : Login(c, n)) \/ LoginFails(c) \/ Bind(c) \/ BadMessage(c)
  \/ RefuseVisit(c) \/ Leave(c) \/ Clean(c)

Next == ~crash /\ (Manage \/ Tick \/ \E c \in Connections : Session(c))

Spec == Init /\ [][Next]_vars

-----------------------------------------------------------------------------
\* Every variable has its type.
TypeOK ==
  /\ accounts \subseteq [id : Ids, account : Names, disabled : BOOLEAN]
  /\ lastTime \in 0..MaxClock /\ counter \in 0..MaxCounter
  /\ DOMAIN statuses \subseteq Addresses \cup Ids
  /\ \A key \in DOMAIN statuses :
       statuses[key] \in [type : {"ip", "account"}, blocked : BOOLEAN, until : Nat,
                          m : Nat \ {0}, mFor : Nat, h : Nat \ {0}, hFor : Nat]
  /\ session \in [Connections -> [pc : {"none", "new", "decided", "in"},
                                  id : Ids \cup {None}, open : BOOLEAN]]
  /\ kicking \subseteq Addresses \cup Ids /\ clock \in 1..MaxClock
  /\ {crash, repeated, wrapped} \subseteq BOOLEAN
  /\ issued \subseteq Ids /\ raced \subseteq Connections

\* generateUserID gives no id twice, unless more accounts than its counter has values were
\* added in one millisecond: line 310 then borrows the next millisecond.
IdsDiffer == repeated => wrapped

\* As many failures as allowed in an hour block the address or account for an hour from
\* the last one, whatever was counted before, and however windows, expired blocks and
\* removals are interleaved (BlackList::increase). A manager's block counts for itself.
FailuresBlock ==
  \A key \in DOMAIN statuses \ {b.key : b \in blocks} :
    \A f \in Of(key, failures) :
      Cardinality({g \in Of(key, failures) :
                     Window(g.time, Hour) = Window(f.time, Hour) /\ g.no <= f.no}) >= MaxFailures
        => statuses[key].blocked /\ statuses[key].until >= f.time + HourBlock

\* While a manager's block lasts, its address has no open connection that is logged in,
\* and its account has none but those whose login was decided before the users were
\* kicked out (RequestLogin between checkAccount and bindUser).
BlockedStaysOut ==
  \A b \in blocks : b.until >= clock /\ b.key \notin kicking =>
    \A c \in Connections : session[c].pc = "in" /\ session[c].open =>
      peerIP[c] # b.key /\ (session[c].id = b.key => c \in raced)
=============================================================================
