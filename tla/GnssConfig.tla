----------------------------- MODULE GnssConfig -----------------------------
(* The configuration of the GNSS engine: what ILocationControlAPI, XTRA and  *)
(* the sources of the system ask of GnssAdapter, what it keeps to write it   *)
(* back when the modem comes up, and what the modem has.  The adapter runs   *)
(* in one thread, the calls to the modem in another, that of LocApi, which   *)
(* writes some of the adapter's state itself.                                *)
EXTENDS SvBlacklist, Sequences, SequencesExt, TLC

CONSTANTS
    Nfws,          \* non-framework users of positions, one bit of the lock each
    Updates,       \* configurations that gnssUpdateConfig may be called with
    Gets,          \* sets of flags that gnssGetConfig may be called with
    TypeConfigs,   \* configurations of the constellations
    Masks,         \* blacklists that gnssUpdateSvConfig may be called with
    Values,        \* values of plain settings
    Modes,         \* what mLocConfigInfo keeps: constrained time uncertainty, position
                   \* assisted clock estimator, robust location
    Unset,         \* model value
    MaxCommands,   \* calls
    MaxEvents,     \* crashes and locks
    Worlds         \* sets of what is asked and of what the surroundings may do

(* The flags of GnssConfig, from the lowest bit                              *)
Flags == <<"lock", "version", "server", "lpp", "cp", "up", "glonass", "pdn", "es", "mode",
           "blacklist", "extension", "robust", "week", "elevation">>

Injected == {"version", "server", "lpp", "cp", "up", "glonass"} \* the modem and mGps_conf have it
Kept     == Injected \cup {"pdn", "es", "mode"}                 \* mGps_conf has it
Engine   == Injected \cup {"extension", "elevation", "week"}    \* the modem has it

(* The bits of the lock: positions for the framework (MO), and the others    *)
Bits == {"MO"} \cup Nfws

ASSUME GnssConfigAssumption ==
    /\ {"MO", "none"} \cap Nfws = {} /\ IsFiniteSet(Modes)
    /\ Values \subseteq Nat
    /\ MaxCommands \in Nat /\ MaxEvents \in Nat
    /\ \A u \in Updates :
          u.flags \subseteq ToSet(Flags) /\ u.lock \subseteq Bits /\ u.value \in Nat
    /\ \A flags \in Gets : flags \subseteq ToSet(Flags)
    /\ TypeConfigs \subseteq [set : BOOLEAN, on : SUBSET SvTypes, off : SUBSET SvTypes]
    /\ Masks \subseteq [Blacklistable -> SUBSET AllBits]
    /\ \A w \in Worlds :
          w \subseteq {"update", "get", "enable", "nfw", "types", "svs", "band", "modes",
                       "hasty", "untimely", "cold", "crashes", "refuses", "locks",
                       "fixed", "unsupported"}

VARIABLES
    world,     \* what is asked and what the surroundings may do, chosen once
    asked,     \* the settings of the last calls
    commands,  \* the calls: their ids, how often each was answered
    adapter,   \* GnssAdapter
    queue,     \* messages of the adapter's thread
    requests,  \* messages of LocApi's thread
    modem,
    events     \* disturbances so far

vars == <<world, asked, commands, adapter, queue, requests, modem, events>>

-----------------------------------------------------------------------------
NoLock == {"none"}      \* the framework never asked for a lock

(* What a modem has that was just started.                                   *)
Fresh ==
    [up |-> TRUE, lock |-> Bits, conf |-> [i \in Engine |-> 0], mo |-> 0,
     mask |-> NoMask, on |-> {}, band |-> 0, modes |-> [m \in Modes |-> 0]]

Init ==
    /\ world \in Worlds
    /\ asked = [lock |-> NoLock, nfws |-> {}, conf |-> [i \in Kept \cup Engine |-> 0],
                list |-> {}, api |-> DefaultTypes, xtra |-> DefaultTypes, band |-> 0,
                modes |-> [m \in Modes |-> 0]]
    /\ commands = <<>> /\ events = 0
    /\ adapter = [known |-> FALSE, pending |-> <<>>, locked |-> "locks" \in world,
                  conf |-> [i \in Kept |-> 0], mo |-> 0,
                  lock |-> Bits, nfwControl |-> TRUE, afw |-> 0, xtraLock |-> NoLock,
                  list |-> {}, mask |-> NoMask,
                  api |-> DefaultTypes, xtra |-> DefaultTypes, band |-> 0,
                  modes |-> [m \in Modes |-> Unset]]
    /\ queue = <<>>
    /\ requests = <<[op |-> "open"]>>
    /\ modem = [Fresh EXCEPT !.up = FALSE]

Exposed(freedoms) == freedoms \cap world # {}
Supported == "unsupported" \notin world   \* LOC_SUPPORTED_FEATURE_CONSTELLATION_ENABLEMENT_V02
Inject == "fixed" \notin world            \* AGPS_CONFIG_INJECT

Quiet == queue = <<>> /\ requests = <<>>
AtRest == Quiet /\ adapter.pending = <<>>

-----------------------------------------------------------------------------
(* The calls: each puts a message on the adapter's queue.  Unless hasty a    *)
(* caller waits until all is done; if untimely it calls while the modem      *)
(* starts.                                                                   *)

MayAsk(kind) ==
    /\ kind \in world
    /\ Len(commands) < MaxCommands
    /\ \/ "hasty" \in world /\ (adapter.known \/ "cold" \in world)
       \/ Quiet
       \/ /\ "untimely" \in world \/ ("cold" \in world /\ ~adapter.known)
          /\ queue = <<>> /\ \A k \in DOMAIN requests : requests[k].op = "open"

(* Calls with ids have an answer for each.                                   *)
Ask(kind, ids, arg) ==
    /\ commands' = Append(commands, [kind |-> kind, arg |-> arg,
                                     told |-> [i \in 1..ids |-> 0], wrong |-> FALSE])
    /\ queue' = Append(queue, [type |-> kind, n |-> Len(commands) + 1, arg |-> arg])
    /\ UNCHANGED <<world, adapter, requests, modem, events>>

(* The flags that are set in the order of their ids: from the lowest bit     *)
InOrder(order, flags) ==
    LET at == {k \in DOMAIN order : order[k] \in flags}
    IN  [i \in 1..Cardinality(at) |->
            order[CHOOSE k \in at : Cardinality({j \in at : j <= k}) = i]]

(* Nothing in the code reads the week of an update.                          *)
gnssUpdateConfig(u) ==
    /\ MayAsk("update")
    /\ Ask("update", Cardinality(u.flags), u)
    /\ asked' = [asked EXCEPT
            !.conf = [i \in DOMAIN @ |->
                        IF i \in u.flags \ {"week"} /\ (i = "server" => u.server = "supl")
                        THEN u.value ELSE @[i]],
            !.lock = IF "lock" \in u.flags THEN u.lock ELSE @,
            !.list = IF "blacklist" \in u.flags THEN u.list ELSE @]

gnssGetConfig(flags) ==
    /\ MayAsk("get")
    /\ Ask("get", Cardinality(flags), flags)
    /\ UNCHANGED asked

enable ==
    /\ MayAsk("enable")
    /\ Ask("enable", 1, 0)
    /\ UNCHANGED asked

(* The id of a call to enable                                                *)
disable(id) ==
    /\ MayAsk("enable")
    /\ Ask("disable", 1, id)
    /\ UNCHANGED asked

enableNfwLocationAccess(nfws) ==
    /\ MayAsk("nfw")
    /\ Ask("nfw", 0, nfws)
    /\ asked' = [asked EXCEPT !.nfws = nfws]

(* gnssUpdateSvTypeConfig of the API and setConstellation of XTRA            *)
gnssUpdateSvTypeConfig(source, types) ==
    /\ MayAsk("types")
    /\ Ask("types", 0, [source |-> source, types |-> types])
    /\ asked' = [asked EXCEPT ![source] = types]

gnssResetSvTypeConfig ==
    /\ MayAsk("types")
    /\ Ask("types", 0, [source |-> "api", types |-> DefaultTypes])
    /\ asked' = [asked EXCEPT !.api = DefaultTypes]

configConstellations(types, mask) ==
    /\ MayAsk("svs")
    /\ Ask("svs", 1, [types |-> types, mask |-> mask])
    /\ asked' = [asked EXCEPT !.api = types, !.list = convertFromGnssSvIdConfig(mask)]

(* A configuration of size 0 has no value.                                   *)
configConstellationSecondaryBand(value) ==
    /\ MayAsk("band")
    /\ Ask("band", 1, value)
    /\ asked' = [asked EXCEPT !.band = IF value = 0 THEN @ ELSE value]

(* configConstrainedTimeUncertainty, configPositionAssistedClockEstimator    *)
(* and configRobustLocation                                                  *)
configMode(m, value) ==
    /\ MayAsk("modes")
    /\ Ask("mode", 1, [mode |-> m, value |-> value])
    /\ asked' = [asked EXCEPT !.modes[m] = value]

configMinGpsWeek(value) ==
    /\ MayAsk("modes")
    /\ Ask("week", 1, value)
    /\ asked' = [asked EXCEPT !.conf.week = value]

-----------------------------------------------------------------------------
(* Answers.  errs and facts are the errors an answer has for the ids of      *)
(* command n from the first one, and the ones they should be.                *)
Answered(cs, n, errs, facts) ==
    [cs EXCEPT ![n].told = [i \in DOMAIN @ |-> IF i \in DOMAIN errs THEN @[i] + 1 ELSE @[i]],
               ![n].wrong = @ \/ \E i \in DOMAIN errs : errs[i] # facts[i]]

reportResponse(n, err) == commands' = Answered(commands, n, <<err>>, <<err>>)

-----------------------------------------------------------------------------
(* The adapter.  The operators map its state, and the messages for LocApi    *)
(* (out), to the next.                                                       *)

Open(a) == [state |-> a, out |-> <<>>]
Send(x, r) == [x EXCEPT !.out = Append(@, r)]

CombinedTypes(a) == gnssCombineSvTypeConfigs(a.api, a.xtra)

(* BUG: the lock is always the one kept.                                     *)
BugLockAtRestart(a) == a.lock

(* If the framework sets the lock it is a mask, that holds while positions   *)
(* are off.                                                                  *)
LockAtRestart(a) == IF a.nfwControl \/ a.afw = 0 THEN a.lock ELSE {}

(* BUG: only what the configuration file sets is written back.               *)
BugWrittenBack(a) == {"lock", "blacklist", "server", "version", "lpp"}

(* The flags setConfig sets.  No technology, no flag.                        *)
WrittenBack(a) ==
    {"lock", "blacklist", "server", "version", "glonass", "lpp"}
    \cup {f \in {"cp", "up"} : a.conf[f] # 0}

(* Everything is captured now, and used by LocApi's thread.  The server for  *)
(* mobile originated requests is sent when it is new.                        *)
setConfig(x) ==
    LET a == x.state
        mo == IF Inject THEN 1 ELSE 0
    IN  [state |-> [a EXCEPT !.mo = mo],
         out |-> x.out \o
            <<[op |-> "update", n |-> 0, flags |-> WrittenBack(a), need |-> WrittenBack(a),
               lock |-> LockAtRestart(a), list |-> a.list, conf |-> a.conf,
               mo |-> IF a.mo # mo THEN mo ELSE 0]>>
            \o SetToSeq({[op |-> "check", mode |-> m] : m \in Modes})]

SetBlacklistSv(x, mask, n) == Send(x, [op |-> "blacklist", n |-> n, mask |-> mask])

gnssSvIdConfigUpdate(x) ==
    SetBlacklistSv(x, combineBlacklistSvs(x.state.mask, CombinedTypes(x.state)), 0)

gnssSvTypeConfigUpdateAtRestart(x) ==
    IF CombinedTypes(x.state).set
    THEN Send(x, [op |-> "control", on |-> CombinedTypes(x.state).on]) ELSE x

gnssSecondaryBandConfigUpdate(x, n) ==
    IF x.state.band # 0 THEN Send(x, [op |-> "band", n |-> n, value |-> x.state.band]) ELSE x

(* BUG: a constellation that is not enabled any more stays enabled.          *)
BugNoReset(x, current, new) ==
    LET blacklist == combineBlacklistSvs(x.state.mask, new)
        y == SetBlacklistSv(x, [t \in Blacklistable |->
                    IF t \in current.off \cap new.on THEN {} ELSE blacklist[t]], 0)
    IN  IF current = new THEN x
        ELSE IF ~new.set THEN SetBlacklistSv(Send(x, [op |-> "reset"]), x.state.mask, 0)
        ELSE IF new.on # {} /\ new.on # current.on
             THEN Send(y, [op |-> "control", on |-> new.on]) ELSE y

(* A constellation that is enabled again loses all its blacklisted           *)
(* satellites, in the modem only.                                            *)
gnssSvTypeConfigUpdate(x, current, new) ==
    LET blacklist == combineBlacklistSvs(x.state.mask, new)
        removed == current.on \ new.on
        r == IF removed # {} THEN Send(x, [op |-> "reset"]) ELSE x
        y == SetBlacklistSv(r, [t \in Blacklistable |->
                    IF t \in current.off \cap new.on THEN {} ELSE blacklist[t]], 0)
    IN  IF current = new THEN x
        ELSE IF ~new.set THEN SetBlacklistSv(Send(x, [op |-> "reset"]), x.state.mask, 0)
        ELSE IF new.on # {} /\ new.on # current.on
             THEN Send(y, [op |-> "control", on |-> new.on]) ELSE y

(* updateLockStatus of the XTRA observer: only the framework's bit counts.   *)
TellXtra(x, lock) ==
    [x EXCEPT !.state.xtraLock =
        (lock \cap {"MO"}) \cup (IF x.state.locked THEN {"MO"} ELSE {})]

SetGpsLock(x, lock) == Send(x, [op |-> "lock", lock |-> lock])

-----------------------------------------------------------------------------
(* The messages of the adapter's thread                                      *)

Message(type) == queue # <<>> /\ Head(queue).type = type

Done(x) ==
    /\ adapter' = x.state
    /\ requests' = requests \o x.out
    /\ queue' = Tail(queue)
    /\ UNCHANGED <<world, asked, modem, events>>

(* Until the engine is known, these wait.                                    *)
Waiting == {"update", "get", "nfw", "types"}

ProcEarly ==
    /\ queue # <<>> /\ Head(queue).type \in Waiting
    /\ ~adapter.known
    /\ Done(Open([adapter EXCEPT !.pending = Append(@, Head(queue))]))
    /\ UNCHANGED commands

Received(type) == Message(type) /\ (type \in Waiting => adapter.known)
Arg == Head(queue).arg

(* MsgGnssUpdateConfig.  Servers other than those of SUPL are refused, which *)
(* nobody is told.                                                           *)
ProcUpdate ==
    /\ Received("update")
    /\ LET u == Arg
           locks == "lock" \in u.flags
           lock == IF locks THEN u.lock \cup {"MO"} ELSE adapter.lock
           known == IF "server" \in u.flags /\ (u.server # "supl" \/ ~Inject)
                    THEN u.flags \ {"server"} ELSE u.flags
           a == [adapter EXCEPT
                    !.conf = [i \in Kept |-> IF i \in known THEN u.value ELSE @[i]],
                    !.lock = lock,
                    !.nfwControl = @ /\ ~locks]
       IN  Done(Send(Open(a),
                [op |-> "update", n |-> Head(queue).n, flags |-> u.flags,
                 need |-> (u.flags \ (IF u.server # "supl" THEN {"server"} ELSE {}))
                          \ (IF adapter.afw # 0 /\ ~adapter.nfwControl THEN {"lock"} ELSE {}),
                 lock |-> IF adapter.afw # 0 /\ adapter.nfwControl THEN {} ELSE lock,
                 list |-> u.list, conf |-> [i \in Kept \cup Engine |-> u.value],
                 mo |-> adapter.mo]))
    /\ UNCHANGED commands

(* What can be read is read from the modem, with the id after those of the   *)
(* flags that are answered at once.                                          *)
ProcGet ==
    /\ Received("get")
    /\ LET flags == Arg
           read == {"robust", "week", "elevation"} \cap flags
           now == InOrder(Flags, flags \ read)
           errs == [k \in DOMAIN now |->
                        IF now[k] = "blacklist" /\ Supported THEN "ok" ELSE "unsupported"]
           reads == [k \in 1..Cardinality(read) |->
                        [op |-> "read", n |-> Head(queue).n, id |-> Len(now) + 1]]
       IN  /\ Done([state |-> adapter, out |-> reads])
           /\ commands' = Answered(commands, Head(queue).n, errs, errs)

ProcEnable ==
    /\ Received("enable")
    /\ LET n == Head(queue).n
           lock == IF adapter.nfwControl THEN adapter.lock \cap Nfws ELSE {}
           a == [adapter EXCEPT !.afw = n, !.lock = IF adapter.nfwControl THEN lock ELSE @]
       IN  IF adapter.afw # 0
           THEN Done(Open(adapter)) /\ reportResponse(n, "already")
           ELSE Done(TellXtra(SetGpsLock(Open(a), lock), lock)) /\ reportResponse(n, "ok")

ProcDisable ==
    /\ Received("disable")
    /\ LET n == Head(queue).n
           lock == IF adapter.nfwControl THEN adapter.lock \cup {"MO"} ELSE adapter.lock
           a == [adapter EXCEPT !.afw = 0, !.lock = lock]
       IN  IF adapter.afw # Arg
           THEN Done(Open(adapter)) /\ reportResponse(n, "unknown")
           ELSE Done(TellXtra(SetGpsLock(Open(a), lock), lock)) /\ reportResponse(n, "ok")

(* MsgControlNfwLocationAccess: the lock of those who may not have positions *)
ProcNfw ==
    /\ Received("nfw")
    /\ LET lock == (adapter.lock \cap {"MO"}) \cup (Nfws \ Arg) IN
       Done(IF adapter.nfwControl
            THEN SetGpsLock(Open([adapter EXCEPT !.lock = lock]), lock) ELSE Open(adapter))
    /\ UNCHANGED commands

(* MsgGnssUpdateSvTypeConfig and MsgGnssResetSvTypeConfig                    *)
ProcTypes ==
    /\ Received("types")
    /\ LET a == [adapter EXCEPT ![Arg.source] = Arg.types] IN
       Done(IF Supported
            THEN gnssSvTypeConfigUpdate(Open(a), CombinedTypes(adapter), CombinedTypes(a))
            ELSE Open(adapter))
    /\ UNCHANGED commands

(* The modem gets the constellations that were enabled before, and the       *)
(* blacklist without those that are disabled.                                *)
gnssUpdateSvConfig ==
    /\ Received("svs")
    /\ LET current == CombinedTypes(adapter)
           types == Arg.types
           removed == current.on \ types.on
           a == [adapter EXCEPT !.api = types, !.mask = Arg.mask,
                                !.list = convertFromGnssSvIdConfig(Arg.mask)]
           r == IF ~types.set \/ removed # {} THEN Send(Open(a), [op |-> "reset"]) ELSE Open(a)
           c == IF types.set THEN Send(r, [op |-> "control", on |-> current.on]) ELSE r
       IN  Done(SetBlacklistSv(c, Arg.mask, Head(queue).n))
    /\ UNCHANGED commands

gnssUpdateSecondaryBandConfig ==
    /\ Received("band")
    /\ Done(gnssSecondaryBandConfigUpdate(Open([adapter EXCEPT !.band = Arg]), Head(queue).n))
    /\ UNCHANGED commands

(* setConstrainedTunc, setPositionAssistedClockEstimator, configRobustLocation *)
ProcMode ==
    /\ Received("mode")
    /\ Done(Send(Open([adapter EXCEPT !.modes[Arg.mode] = Arg.value]),
                 [op |-> "mode", n |-> Head(queue).n, mode |-> Arg.mode, value |-> Arg.value]))
    /\ UNCHANGED commands

ProcWeek ==
    /\ Received("week")
    /\ Done(Send(Open(adapter), [op |-> "week", n |-> Head(queue).n, value |-> Arg]))
    /\ UNCHANGED commands

(* The callbacks of LocApiCollectiveResponse and LocApiResponse              *)
ProcResponse ==
    /\ Message("response")
    /\ Done(Open(adapter))
    /\ LET m == Head(queue) IN
       commands' = IF m.id = 0 THEN Answered(commands, m.n, m.errs, m.facts)
                   ELSE [commands EXCEPT ![m.n].told[m.id] = @ + 1]

(* BUG: what waits is forgotten.                                             *)
BugRevive(x) ==
    /\ adapter' = [x.state EXCEPT !.pending = <<>>]
    /\ requests' = requests \o x.out
    /\ queue' = Tail(queue)
    /\ UNCHANGED <<world, asked, modem, events>>

(* What waits comes back, behind all that came since.                        *)
Revive(x) ==
    /\ adapter' = [x.state EXCEPT !.pending = <<>>]
    /\ requests' = requests \o x.out
    /\ queue' = Tail(queue) \o adapter.pending
    /\ UNCHANGED <<world, asked, modem, events>>

handleEngineUpEvent ==
    /\ Message("up")
    /\ LET x == gnssSecondaryBandConfigUpdate(
                    gnssSvTypeConfigUpdateAtRestart(
                        gnssSvIdConfigUpdate(
                            setConfig(Open([adapter EXCEPT !.known = TRUE])))), 0)
       IN  IF adapter.locked THEN Done(x) ELSE Revive(x)
    /\ UNCHANGED commands

handleEngineLockStatus ==
    /\ Message("lock")
    /\ IF Head(queue).on
       THEN Done(Open([adapter EXCEPT !.xtraLock = {"MO"}]))
       ELSE Revive(Open([adapter EXCEPT !.xtraLock = IF adapter.afw # 0 THEN {} ELSE {"MO"}]))
    /\ UNCHANGED commands

-----------------------------------------------------------------------------
(* LocApi and the modem                                                      *)

(* The order in which gnssUpdateConfig goes through the flags                *)
SendOrder == <<"lock", "server", "version", "lpp", "cp", "up", "glonass",
               "blacklist", "extension", "elevation">>

(* Without AGPS_CONFIG_INJECT these flags are cleared; one of them twice,    *)
(* and "up" never.                                                           *)
Requested(r) ==
    IF Inject THEN r.flags ELSE r.flags \ {"server", "version", "glonass", "lpp", "cp"}

(* What goes to the modem                                                    *)
SentOn(r) ==
    (Requested(r) \cap r.need \cap ToSet(SendOrder)) \ (IF Supported THEN {} ELSE {"blacklist"})

(* What the modem refuses                                                    *)
Refused(sent) ==
    IF ~modem.up THEN {sent}
    ELSE {{}} \cup (IF "refuses" \in world THEN {{f} : f \in sent} ELSE {})

Reply(r, id, errs, facts) ==
    queue' = IF r.n = 0 THEN queue
             ELSE Append(queue, [type |-> "response", n |-> r.n, id |-> id,
                                 errs |-> errs, facts |-> facts])

Next1(op) == requests # <<>> /\ Head(requests).op = op

Taken ==
    /\ requests' = Tail(requests)
    /\ UNCHANGED <<world, asked, commands, events>>

(* gnssUpdateConfig of GnssAdapter: the blacklist is kept here, on LocApi's  *)
(* thread.  The errors go by position, in the order of sending.              *)
LocApiUpdate ==
    /\ Next1("update")
    /\ LET r == Head(requests)
           listed == "blacklist" \in Requested(r) /\ Supported
           mask == convertToGnssSvIdConfig(r.list)
           order == InOrder(SendOrder, Requested(r))
       IN  \E bad \in Refused(SentOn(r)) :
           LET Err(f) == CASE f \in bad -> "refused"
                           [] f = "blacklist" /\ ~Supported -> "unsupported"
                           [] OTHER -> "ok"
               Fact(f) == IF f = "server" /\ f \notin r.need THEN "invalid" ELSE Err(f)
               done == SentOn(r) \ bad
               ids == InOrder(Flags, r.flags)
           IN  /\ adapter' = IF listed THEN [adapter EXCEPT !.list = r.list, !.mask = mask]
                             ELSE adapter
               /\ modem' = [modem EXCEPT
                    !.conf = [i \in Engine |-> IF i \in done THEN r.conf[i] ELSE @[i]],
                    !.lock = IF "lock" \in done THEN r.lock ELSE @,
                    !.mo = IF "server" \in done /\ r.mo # 0 THEN r.mo ELSE @,
                    !.mask = IF "blacklist" \in done
                             THEN combineBlacklistSvs(mask, CombinedTypes(adapter)) ELSE @]
               /\ Reply(r, 0,
                        [k \in DOMAIN ids |-> IF k <= Len(order) THEN Err(order[k]) ELSE "ok"],
                        [k \in DOMAIN ids |-> Fact(ids[k])])
    /\ Taken

(* BUG: a setting that is there is not written back.                         *)
BugCheck ==
    /\ Next1("check")
    /\ LET m == Head(requests).mode IN
       requests' = (IF adapter.modes[m] = Unset THEN <<[op |-> "load", mode |-> m]>> ELSE <<>>)
                   \o Tail(requests)
    /\ UNCHANGED <<world, asked, commands, adapter, queue, modem, events>>

(* A setting of mLocConfigInfo that is found unset is loaded from the        *)
(* configuration file afterwards, whatever came in between.                  *)
LocApiCheck ==
    /\ Next1("check")
    /\ LET m == Head(requests).mode IN
       /\ IF adapter.modes[m] = Unset
          THEN /\ requests' = <<[op |-> "load", mode |-> m]>> \o Tail(requests)
               /\ UNCHANGED modem
          ELSE /\ requests' = Tail(requests)
               /\ modem' = IF modem.up THEN [modem EXCEPT !.modes[m] = adapter.modes[m]] ELSE modem
    /\ UNCHANGED <<world, asked, commands, adapter, queue, events>>

LocApiLoad ==
    /\ Next1("load")
    /\ LET m == Head(requests).mode IN
       /\ adapter' = [adapter EXCEPT !.modes[m] = 0]
       /\ modem' = IF modem.up THEN [modem EXCEPT !.modes[m] = 0] ELSE modem
    /\ Taken
    /\ UNCHANGED queue

(* What the modem does with a plain request                                  *)
After(r) ==
    CASE r.op = "lock" -> [modem EXCEPT !.lock = r.lock]
      [] r.op = "blacklist" -> [modem EXCEPT !.mask = r.mask]
      [] r.op = "control" -> [modem EXCEPT !.on = @ \cup r.on]
      [] r.op = "reset" -> [modem EXCEPT !.on = {}]
      [] r.op = "band" -> [modem EXCEPT !.band = r.value]
      [] r.op = "mode" -> [modem EXCEPT !.modes[r.mode] = r.value]
      [] r.op = "week" -> [modem EXCEPT !.conf.week = r.value]
      [] OTHER -> modem

Answering == {"blacklist", "band", "mode", "week", "read"}

LocApiRequest ==
    /\ requests # <<>> /\ Head(requests).op \in Answering \cup {"lock", "control", "reset"}
    /\ LET r == Head(requests) IN
       \E bad \in Refused({r.op}) :
           LET err == IF bad = {} THEN "ok" ELSE "refused" IN
           /\ modem' = IF bad = {} THEN After(r) ELSE modem
           /\ IF r.op \in Answering
              THEN Reply(r, IF r.op = "read" THEN r.id ELSE 0, <<err>>, <<err>>)
              ELSE UNCHANGED queue
    /\ Taken
    /\ UNCHANGED adapter

LocApiOpen ==
    /\ Next1("open")
    /\ modem' = [modem EXCEPT !.up = TRUE]
    /\ queue' = Append(queue, [type |-> "up"])
    /\ Taken
    /\ UNCHANGED adapter

Event(freedom) ==
    /\ freedom \in world
    /\ events < MaxEvents /\ events' = events + 1
    /\ UNCHANGED <<world, asked, commands>>

(* A modem that restarts knows nothing of what it was told.                  *)
ModemCrashes ==
    /\ Event("crashes") /\ modem.up
    /\ "untimely" \in world \/ Quiet
    /\ modem' = [Fresh EXCEPT !.up = FALSE]
    /\ requests' = Append(requests, [op |-> "open"])
    /\ UNCHANGED <<adapter, queue>>

(* reportEngineLockStatus                                                    *)
EngineLockChanges ==
    /\ Event("locks")
    /\ adapter' = [adapter EXCEPT !.locked = ~@]
    /\ queue' = Append(queue, [type |-> "lock", on |-> adapter'.locked])
    /\ UNCHANGED <<requests, modem>>

-----------------------------------------------------------------------------
Callers ==
    \/ \E u \in Updates : gnssUpdateConfig(u)
    \/ \E flags \in Gets : gnssGetConfig(flags)
    \/ enable
    \/ \E id \in 1..MaxCommands : id \in DOMAIN commands /\ commands[id].kind = "enable" /\ disable(id)
    \/ \E nfws \in SUBSET Nfws : enableNfwLocationAccess(nfws)
    \/ \E source \in {"api", "xtra"}, types \in TypeConfigs : gnssUpdateSvTypeConfig(source, types)
    \/ gnssResetSvTypeConfig
    \/ \E types \in TypeConfigs \cup {DefaultTypes}, mask \in Masks : configConstellations(types, mask)
    \/ \E value \in Values : configConstellationSecondaryBand(value)
    \/ \E m \in Modes, value \in Values : configMode(m, value)
    \/ \E value \in Values : configMinGpsWeek(value)

Adapter ==
    \/ ProcEarly \/ ProcUpdate \/ ProcGet \/ ProcEnable \/ ProcDisable \/ ProcNfw \/ ProcTypes
    \/ gnssUpdateSvConfig \/ gnssUpdateSecondaryBandConfig \/ ProcMode \/ ProcWeek
    \/ ProcResponse \/ handleEngineUpEvent \/ handleEngineLockStatus

LocApi == LocApiUpdate \/ LocApiCheck \/ LocApiLoad \/ LocApiRequest \/ LocApiOpen

Next == Callers \/ Adapter \/ LocApi \/ ModemCrashes \/ EngineLockChanges

Spec == Init /\ [][Next]_vars

-----------------------------------------------------------------------------
(* Properties                                                                *)

TypeOK ==
    /\ world \in Worlds /\ events \in 0..MaxEvents /\ Len(commands) <= MaxCommands
    /\ adapter.lock \subseteq Bits /\ modem.lock \subseteq Bits
    /\ adapter.conf \in [Kept -> Nat] /\ modem.conf \in [Engine -> Nat]
    /\ adapter.mask \in [Blacklistable -> SUBSET AllBits]
    /\ modem.mask \in [Blacklistable -> SUBSET AllBits]
    /\ {adapter.api.on, adapter.api.off, adapter.xtra.on, adapter.xtra.off, modem.on} \subseteq SUBSET SvTypes
    /\ \A k \in DOMAIN adapter.pending : adapter.pending[k].type \in Waiting

(* What came early comes back behind what came late.                         *)
Reordered ==
    \/ "cold" \in world /\ Exposed({"hasty", "locks"})
    \/ {"untimely", "locks"} \subseteq world

(* The list setConfig captured, of an earlier call, is written back over one *)
(* that came since, and an update waits for the engine while svs do not.     *)
ListAtRisk ==
    \/ Exposed({"hasty", "untimely"}) /\ (Exposed({"svs"}) \/ events > 0)
    \/ {"update", "svs", "cold"} \subseteq world

ListsAsked ==
    {{}} \cup {CASE c.kind = "update" /\ "blacklist" \in c.arg.flags -> c.arg.list
                [] c.kind = "svs" -> convertFromGnssSvIdConfig(c.arg.mask)
                [] OTHER -> {} : c \in ToSet(commands)}

(* Every id is answered once when all is done, with the error of its item.   *)
(* gnssUpdateConfigCommand, gnssGetConfigCommand and the other calls with    *)
(* ids, together with what they send to LocApi and its answers.  Errors go   *)
(* astray where the order of sending is not that of the flags, and a server  *)
(* that was refused is reported as set.  Several settings that are read from *)
(* the modem share one id, and a band without value has no answer.           *)
EachAnswered ==
    /\ TypeOK
    /\ \A n \in DOMAIN commands :
          /\ commands[n].wrong =>
             /\ commands[n].kind = "update"
             /\ \/ commands[n].arg.server # "supl"
                \/ ~Inject
                \/ LET flags == commands[n].arg.flags IN
                   InOrder(SendOrder, flags) # InOrder(Flags, flags)
          /\ \/ AtRest =>
                \A i \in DOMAIN commands[n].told : commands[n].told[i] = 1
             \/ commands[n].kind = "get"
                /\ Cardinality({"robust", "week", "elevation"} \cap commands[n].arg) > 1
             \/ commands[n].kind = "band" /\ commands[n].arg = 0

(* The lock of the modem is what the users of positions are due, whatever    *)
(* the modem missed while it was down: enableCommand, disableCommand,        *)
(* nfwControlCommand, the lock of gnssUpdateConfigCommand and setConfig      *)
(* write it.  Where the framework set a lock it is a mask that holds while   *)
(* positions are off; otherwise its bit is set while they are off, and those *)
(* of the others are theirs.  XTRA knows whether positions are on.           *)
LockServed ==
    AtRest /\ ~Exposed({"refuses"}) /\ ~Reordered =>
    /\ modem.lock =
          IF asked.lock # NoLock
          THEN IF adapter.afw # 0 THEN {} ELSE asked.lock \cup {"MO"}
          ELSE (Nfws \ asked.nfws) \cup (IF adapter.afw # 0 THEN {} ELSE {"MO"})
    /\ adapter.xtraLock \in
          {NoLock, IF adapter.afw = 0 \/ adapter.locked THEN {"MO"} ELSE {}}

(* The modem has what was asked for last, and keeps it when it restarts:     *)
(* setConfig writes back what gnssUpdateConfigCommand, gnssUpdateSvConfig,   *)
(* gnssUpdateSecondaryBandConfig and the modes left in mGps_conf and the     *)
(* adapter.  A restart loses the extension of emergencies, the elevation and *)
(* the week, and the server of mobile originated requests; a mode set while  *)
(* its load from the file was under way is overwritten, here and then there. *)
SettingsStand ==
    AtRest /\ ~Exposed({"refuses"}) /\ ~Reordered =>
    /\ Inject => /\ \A i \in Injected : modem.conf[i] = asked.conf[i]
                 /\ events = 0 => /\ \A i \in Engine : modem.conf[i] = asked.conf[i]
                                  /\ modem.mo = 1
    /\ modem.band \in {asked.band, adapter.band}
    /\ \A m \in Modes : \/ modem.modes[m] = asked.modes[m]
                        \/ /\ Exposed({"hasty", "untimely"}) /\ events > 0
                           /\ modem.modes[m] = 0 /\ adapter.modes[m] = 0
    /\ Supported => \/ adapter.list = asked.list
                    \/ ListAtRisk /\ adapter.list \in ListsAsked

(* The satellites and constellations the modem leaves out are those of the   *)
(* lists the adapter keeps, and the two forms of the blacklist are the same. *)
(* gnssSvTypeConfigUpdate, gnssUpdateConfig and gnssSvIdConfigUpdate change  *)
(* them.                                                                     *)
SatellitesAgree ==
    AtRest /\ Supported /\ ~Exposed({"refuses"}) =>
    /\ adapter.mask = convertToGnssSvIdConfig(adapter.list)
    /\ SatellitesNamed
    /\ \/ Exposed({"svs"}) \/ {"update", "types", "hasty"} \subseteq world
       \/ /\ modem.on = CombinedTypes(adapter).on
          /\ \A t \in Blacklistable :
                \/ modem.mask[t] = combineBlacklistSvs(adapter.mask, CombinedTypes(adapter))[t]
                \/ modem.mask[t] = {} /\ t \in CombinedTypes(adapter).on
=============================================================================
