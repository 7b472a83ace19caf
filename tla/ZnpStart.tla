------------------------------- MODULE ZnpStart -------------------------------
(***************************************************************************)
(* The start procedure of a ZigBee port (drivers/AZAP/lib): the automaton  *)
(* of znp_start_sm.c, with connect, disconnect, startZnp, stopZnp,         *)
(* doStartZnpCompletion and processRxMsg of port_context.c and the         *)
(* watchdog call of azapClockSc.                                           *)
(*                                                                         *)
(* tx is the transmit buffer, counted in commands; rx is what the dongle   *)
(* has sent and the port has not processed, in the TTY or in its receive   *)
(* buffer.  The counters writeParamRespExpected, afRegisterEpRespExpected, *)
(* zdoCbRegisterRespExpected and deviceInfoRespExpected are each set when  *)
(* their state is entered and read in no other: respExpected is the one of *)
(* the current state.                                                      *)
(*                                                                         *)
(* The dongle is external.  It answers the commands in order, forgets its  *)
(* registrations when it resets, ignores commands while it initialises     *)
(* again, may refuse a command, and may be unplugged at any moment.        *)
(***************************************************************************)
EXTENDS Integers, Sequences

CONSTANTS
    NbEndPoints,       \* the length of endPointList
    NbZdoCallbacks,    \* the length of c_zdoMsgCbRegisterListCoord (13)
    NbDeviceInfos,     \* the device informations asked for (4)
    TxSize,            \* how many commands tx holds (512 bytes)
    MaxFaults          \* bound: the number of commands ignored or refused, of
                       \* unpluggings and of answers later than the watchdog

ASSUME SizesAssumption ==
    /\ {NbZdoCallbacks, NbDeviceInfos, TxSize} \subseteq Nat \ {0}
    /\ {NbEndPoints, MaxFaults} \subseteq Nat

VARIABLES
    deviceFd,          \* "none" (-1), "live", or "dead": the TTY is gone
    state,             \* of startInst, "NULL" when there is none
    nbCycles, respExpected,
    resetHanAtReboot,
    tx, rx,
    result,            \* the last azapStartCb: "none", "success" or "failure"
    plugged,           \* external: the dongle is there
    endPoints, callbacks,  \* external: what the dongle has registered
    nvOption,          \* external: the start-up option in its NV RAM
    starting,          \* external: state change indications to come
    faults,            \* external: the number of faults so far
    powerLost          \* history: unplugged since the procedure last started

inst == <<state, nbCycles, respExpected>>
port == <<deviceFd, resetHanAtReboot, result>>
dongle == <<plugged, endPoints, callbacks, nvOption, starting>>
vars == <<inst, port, tx, rx, dongle, faults, powerLost>>

-----------------------------------------------------------------------------
(* Commands and answers *)

fault == faults < MaxFaults /\ faults' = faults + 1

\* The buffer grows with what is sent.
sendUnchecked(q, cmds) == q \o cmds

room(q) == TxSize - Len(q)

\* znpSend: a command that does not fit in tx is lost, nobody looks.
send(q, cmds) == q \o SubSeq(cmds, 1, IF Len(cmds) <= room(q) THEN Len(cmds) ELSE room(q))

\* One command, and n of them with the numbers of what they are about.
single(name) == <<<<name, 0>>>>
each(n, name) == [i \in 1..n |-> <<name, i>>]

\* The start-up option the port wants.
option == IF resetHanAtReboot THEN "DEFAULT_STATE" ELSE "AUTO_START"

\* writeParamInNvRam: start-up option, device type, PAN ID when the HAN is
\* reset, channel.
writeParams == single(option) \o each(IF resetHanAtReboot THEN 3 ELSE 2, "NV_WRITE")

-----------------------------------------------------------------------------
(* The automaton *)

setState(s, expected) == state' = s /\ respExpected' = expected

\* start: the counters are reset and the firmware is told to.
startFrom(q) ==
    /\ setState("WAIT_INITIAL_RESET_RESP", 0)
    /\ nbCycles' = 0
    /\ tx' = send(q, single("SOFT_RESET"))
    /\ powerLost' = FALSE

\* doStartZnpCompletion, reached through abandon on a failure: the instance
\* is freed and the client told.
completeLeaving(q, res) ==
    /\ setState("NULL", 0) /\ nbCycles' = 0
    /\ result' = res
    /\ tx' = q

complete(res) == completeLeaving(tx, res)

\* Nothing the state is waiting for: the message is ignored.
ignore == UNCHANGED <<inst, result, tx>>

\* A move to state s with commands sent and n answers to come.
move(s, n, cmds) ==
    /\ setState(s, n)
    /\ tx' = send(tx, cmds)
    /\ UNCHANGED <<nbCycles, result>>

\* An answer that is not the last one.
countDown ==
    /\ respExpected' = respExpected - 1
    /\ UNCHANGED <<state, nbCycles, result, tx>>

writeParamInNvRam == move("WAIT_WRITE_PARAM_RESP", Len(writeParams), writeParams)

\* The last end point of the list is forgotten.
registerAllButLast ==
    LET cmds == each(NbEndPoints - 1, "AF_REGISTER")
    IN IF NbEndPoints = 0 \/ room(tx) < NbEndPoints
       THEN completeLeaving(send(tx, cmds), "failure")
       ELSE move("WAIT_REGISTER_ENDPOINTS_RESP", NbEndPoints - 1, cmds)

\* registerEndPoints: there must be end points and room for all of them; the
\* registrations that did fit are sent even when the procedure is abandoned.
registerEndPoints ==
    LET cmds == each(NbEndPoints, "AF_REGISTER")
    IN IF NbEndPoints = 0 \/ room(tx) < NbEndPoints
       THEN completeLeaving(send(tx, cmds), "failure")
       ELSE move("WAIT_REGISTER_ENDPOINTS_RESP", NbEndPoints, cmds)

processWaitInitialResetResp(msg) ==
    IF msg[1] = "RESET_IND" THEN writeParamInNvRam ELSE ignore

processWaitWriteParamResp(msg) ==
    CASE msg[1] = "RESET_IND" -> writeParamInNvRam
      [] msg[1] = "NV_WRITE" /\ msg[2] # "ok" -> complete("failure")
      [] msg[1] = "NV_WRITE" /\ msg[2] = "ok" ->
           IF respExpected > 1 THEN countDown
           ELSE IF nbCycles = 0
                THEN move("WAIT_WRITE_RESET_RESP", 0, single("SOFT_RESET"))
                ELSE move("WAIT_READ_PARAM_RESP", 0, single("NV_READ"))
      [] OTHER -> ignore

processWaitReadParamResp(msg) ==
    IF msg[1] # "NV_READ" THEN ignore
    ELSE IF msg[2] = option THEN registerEndPoints ELSE complete("failure")

processWaitWriteResetResp(msg) ==
    IF msg[1] = "RESET_IND" THEN registerEndPoints ELSE ignore

processWaitRegisterEndpointsResp(msg) ==
    CASE msg[1] # "AF_REGISTER" -> ignore
      [] msg[1] = "AF_REGISTER" /\ msg[2] # "ok" -> complete("failure")
      [] OTHER -> IF respExpected > 1 THEN countDown
                  ELSE move("WAIT_REGISTER_ZDO_CALLBACKS_RESP", NbZdoCallbacks,
                            each(NbZdoCallbacks, "ZDO_MSG_CB_REGISTER"))

processWaitRegisterZdoCbResp(msg) ==
    CASE msg[1] # "ZDO_MSG_CB_REGISTER" -> ignore
      [] msg[1] = "ZDO_MSG_CB_REGISTER" /\ msg[2] # "ok" -> complete("failure")
      [] OTHER -> IF respExpected > 1 THEN countDown
                  ELSE move("WAIT_STARTUP_FROM_APP_RESP", 0, single("STARTUP_FROM_APP"))

\* Two entire cycles are made.
processWaitStartupFromAppResp(msg) ==
    CASE msg[1] # "STARTUP_FROM_APP" -> ignore
      [] msg[1] = "STARTUP_FROM_APP" /\ msg[2] # "ok" -> complete("failure")
      [] OTHER -> IF nbCycles = 0
                  THEN /\ nbCycles' = 1
                       /\ setState("WAIT_WRITE_PARAM_RESP", Len(writeParams))
                       /\ tx' = send(tx, writeParams)
                       /\ UNCHANGED result
                  ELSE move("STARTING", 0, <<>>)

\* The other state changes are traced only.
processZnpStartingIndication(msg) ==
    IF msg[1] = "STATE_CHG_IND"
    THEN move("WAIT_PAN_INFOS", NbDeviceInfos, each(NbDeviceInfos, "GET_DEVICE_INFO"))
    ELSE ignore

processWaitPanInfos(msg) ==
    IF msg[1] # "GET_DEVICE_INFO" THEN ignore
    ELSE IF respExpected > 1 THEN countDown
         ELSE move("WAIT_WRITE_PAN_ID", 0, single("NV_WRITE"))

\* The status of this write is not looked at.
processWaitWritePanId(msg) ==
    IF msg[1] = "NV_WRITE" THEN complete("success") ELSE ignore

processZnpMsg(msg) ==
    CASE state = "WAIT_INITIAL_RESET_RESP"          -> processWaitInitialResetResp(msg)
      [] state = "WAIT_WRITE_PARAM_RESP"            -> processWaitWriteParamResp(msg)
      [] state = "WAIT_READ_PARAM_RESP"             -> processWaitReadParamResp(msg)
      [] state = "WAIT_WRITE_RESET_RESP"            -> processWaitWriteResetResp(msg)
      [] state = "WAIT_REGISTER_ENDPOINTS_RESP"     -> processWaitRegisterEndpointsResp(msg)
      [] state = "WAIT_REGISTER_ZDO_CALLBACKS_RESP" -> processWaitRegisterZdoCbResp(msg)
      [] state = "WAIT_STARTUP_FROM_APP_RESP"       -> processWaitStartupFromAppResp(msg)
      [] state = "STARTING"                         -> processZnpStartingIndication(msg)
      [] state = "WAIT_PAN_INFOS"                   -> processWaitPanInfos(msg)
      [] state = "WAIT_WRITE_PAN_ID"                -> processWaitWritePanId(msg)
      [] state = "NULL"                             -> ignore

-----------------------------------------------------------------------------
(* The port *)

\* connect: the TTY is found when the dongle is plugged, and the bell makes
\* its boot loader jump to the ZNP firmware, which says that it was reset.
connect(q, boots) ==
    IF plugged
    THEN deviceFd' = "live" /\ rx' = IF boots THEN Append(q, <<"RESET_IND">>) ELSE q
    ELSE deviceFd' = "none" /\ rx' = q

\* processRxMsg without a TTY, while the procedure runs: connect again.
reconnect(boots) ==
    /\ deviceFd = "none" /\ plugged /\ state # "NULL"
    /\ connect(rx, boots)
    /\ UNCHANGED <<inst, resetHanAtReboot, result, tx, dongle, faults, powerLost>>

\* The same without a procedure: stopZnp and startZnp, the HAN is kept.
resumeZnp(boots) ==
    /\ deviceFd = "none" /\ state = "NULL"
    /\ resetHanAtReboot' = FALSE
    /\ connect(<<>>, boots)
    /\ startFrom(<<>>)
    /\ UNCHANGED <<result, dongle, faults>>

\* The rest of processRxMsg: the next message.  It comes after a connection
\* that can be made, in the same call.
processRxMsg ==
    /\ ~(deviceFd = "none" /\ (plugged \/ state = "NULL"))
    /\ rx # <<>>
    /\ rx' = Tail(rx)
    /\ processZnpMsg(Head(rx))
    /\ UNCHANGED <<deviceFd, resetHanAtReboot, dongle, faults, powerLost>>

\* The descriptor is closed and kept.
disconnectKeepsFd(q) ==
    /\ deviceFd = "dead" /\ deviceFd' = "dead"
    /\ q \in {tx, <<>>} /\ tx' = q
    /\ UNCHANGED <<inst, resetHanAtReboot, result, rx, dongle, faults, powerLost>>

\* The poll reads nothing from a TTY that is gone: disconnect.  What was to
\* be written may have been taken from tx.
disconnect(q) ==
    /\ deviceFd = "dead"
    /\ deviceFd' = "none"
    /\ q \in {tx, <<>>} /\ tx' = q
    /\ UNCHANGED <<inst, resetHanAtReboot, result, rx, dongle, faults, powerLost>>

\* No answer is on its way.
quiet == rx = <<>> /\ starting = 0 /\ (tx = <<>> \/ deviceFd # "live")

\* Nobody calls the watchdog.
noWatchdog == FALSE /\ UNCHANGED vars

\* The watchdog finds that the state has not changed for too long.  Time is
\* not counted: it runs out when nothing is on its way, or, a fault, when the
\* dongle is only slow.
watchdog ==
    /\ state # "NULL"
    /\ IF quiet THEN UNCHANGED faults ELSE fault
    /\ startFrom(tx)
    /\ UNCHANGED <<port, rx, dongle>>

-----------------------------------------------------------------------------
(* The dongle, external *)

\* A restart of its firmware.
forgets == endPoints' = {} /\ callbacks' = {} /\ starting' = 0

\* The next command is carried out and answered; ok is "ko" when it fails.
dongleAnswers(ok) ==
    LET cmd == Head(tx)[1]
        number == Head(tx)[2]
        reply(msg) == rx' = Append(rx, msg)
    IN /\ deviceFd = "live" /\ plugged /\ tx # <<>>
       /\ tx' = Tail(tx)
       /\ IF ok = "ok" THEN UNCHANGED faults ELSE fault
       /\ \/ /\ cmd = "SOFT_RESET" /\ ok = "ok"
             /\ forgets /\ reply(<<"RESET_IND">>)
             /\ nvOption' = IF nvOption = "DEFAULT_STATE" THEN "none" ELSE nvOption
          \/ /\ cmd \in {"AUTO_START", "DEFAULT_STATE"}
             /\ reply(<<"NV_WRITE", ok>>)
             /\ nvOption' = IF ok = "ok" THEN cmd ELSE nvOption
             /\ UNCHANGED <<endPoints, callbacks, starting>>
          \/ /\ cmd = "NV_WRITE"
             /\ reply(<<"NV_WRITE", ok>>)
             /\ UNCHANGED <<endPoints, callbacks, starting, nvOption>>
          \/ /\ cmd = "NV_READ"
             /\ reply(<<"NV_READ", IF ok = "ok" THEN nvOption ELSE "none">>)
             /\ UNCHANGED <<endPoints, callbacks, starting, nvOption>>
          \/ /\ cmd = "AF_REGISTER"
             /\ reply(<<cmd, ok>>)
             /\ endPoints' = IF ok = "ok" THEN endPoints \cup {number} ELSE endPoints
             /\ UNCHANGED <<callbacks, starting, nvOption>>
          \/ /\ cmd = "ZDO_MSG_CB_REGISTER"
             /\ reply(<<cmd, ok>>)
             /\ callbacks' = IF ok = "ok" THEN callbacks \cup {number} ELSE callbacks
             /\ UNCHANGED <<endPoints, starting, nvOption>>
          \/ /\ cmd = "STARTUP_FROM_APP"
             /\ reply(<<cmd, ok>>)
             /\ starting' = IF ok = "ok" THEN 1 ELSE starting
             /\ UNCHANGED <<endPoints, callbacks, nvOption>>
          \/ /\ cmd = "GET_DEVICE_INFO" /\ ok = "ok"
             /\ reply(<<cmd, ok>>)
             /\ UNCHANGED <<endPoints, callbacks, starting, nvOption>>
       /\ UNCHANGED <<inst, port, plugged, powerLost>>

\* A command received while the stack initialises again.
dongleIgnores ==
    /\ deviceFd = "live" /\ plugged /\ tx # <<>>
    /\ fault
    /\ tx' = Tail(tx)
    /\ UNCHANGED <<inst, port, rx, dongle, powerLost>>

\* The network is formed or restored.
dongleStarted ==
    /\ deviceFd = "live" /\ plugged /\ starting > 0
    /\ starting' = starting - 1
    /\ rx' = Append(rx, <<"STATE_CHG_IND">>)
    /\ UNCHANGED <<inst, port, tx, plugged, endPoints, callbacks, nvOption, faults, powerLost>>

\* The dongle loses its power; of what it sent, n messages are in the
\* receive buffer already.
unplug(n) ==
    /\ plugged /\ plugged' = FALSE
    /\ fault
    /\ deviceFd' = IF deviceFd = "live" THEN "dead" ELSE deviceFd
    /\ rx' = SubSeq(rx, 1, n)
    /\ forgets /\ UNCHANGED nvOption
    /\ powerLost' = TRUE
    /\ UNCHANGED <<inst, resetHanAtReboot, result, tx>>

plug ==
    /\ ~plugged /\ plugged' = TRUE
    /\ UNCHANGED <<inst, port, tx, rx, endPoints, callbacks, nvOption, starting, faults,
                   powerLost>>

-----------------------------------------------------------------------------

\* azapStart has called startZnp, with or without a dongle.
Init ==
    /\ plugged \in BOOLEAN
    /\ deviceFd = IF plugged THEN "live" ELSE "none"
    /\ state = "WAIT_INITIAL_RESET_RESP" /\ nbCycles = 0 /\ respExpected = 0
    /\ resetHanAtReboot \in BOOLEAN
    /\ tx = single("SOFT_RESET")
    /\ rx \in IF plugged THEN {<<>>, <<<<"RESET_IND">>>>} ELSE {<<>>}
    /\ result = "none"
    /\ endPoints = {} /\ callbacks = {} /\ starting = 0
    /\ nvOption \in {"none", "AUTO_START"}
    /\ faults = 0
    /\ powerLost = FALSE

Reconnects == \E boots \in BOOLEAN : reconnect(boots) \/ resumeZnp(boots)
Disconnects == \E q \in {tx, <<>>} : disconnect(q)
QuietWatchdog == quiet /\ watchdog
DongleWorks == \E ok \in {"ok", "ko"} : dongleAnswers(ok)

Next ==
    \/ Reconnects \/ processRxMsg \/ Disconnects \/ watchdog
    \/ DongleWorks \/ dongleIgnores \/ dongleStarted
    \/ \E n \in 0..Len(rx) : unplug(n)
    \/ plug

\* The main loop polls, processes what was received and counts the seconds.
\* A dongle that is plugged works; nobody has to plug it.
Fairness ==
    /\ WF_vars(Reconnects) /\ WF_vars(processRxMsg) /\ WF_vars(Disconnects)
    /\ WF_vars(QuietWatchdog)
    /\ WF_vars(DongleWorks) /\ WF_vars(dongleStarted)

Spec == Init /\ [][Next]_vars
FairSpec == Spec /\ Fairness

-----------------------------------------------------------------------------
(* Properties *)

TypeOK ==
    /\ deviceFd \in {"none", "live", "dead"}
    /\ state \in {"NULL", "WAIT_INITIAL_RESET_RESP", "WAIT_WRITE_PARAM_RESP",
                  "WAIT_READ_PARAM_RESP", "WAIT_WRITE_RESET_RESP",
                  "WAIT_REGISTER_ENDPOINTS_RESP", "WAIT_REGISTER_ZDO_CALLBACKS_RESP",
                  "WAIT_STARTUP_FROM_APP_RESP", "STARTING", "WAIT_PAN_INFOS",
                  "WAIT_WRITE_PAN_ID"}
    /\ nbCycles \in 0..1 /\ respExpected \in Nat
    /\ resetHanAtReboot \in BOOLEAN /\ plugged \in BOOLEAN /\ powerLost \in BOOLEAN
    /\ result \in {"none", "success", "failure"}
    /\ Len(tx) <= TxSize
    /\ endPoints \subseteq 1..NbEndPoints /\ callbacks \subseteq 1..NbZdoCallbacks
    /\ nvOption \in {"none", "AUTO_START", "DEFAULT_STATE"} /\ starting \in 0..1
    /\ faults \in 0..MaxFaults

Configured == endPoints = 1..NbEndPoints /\ callbacks = 1..NbZdoCallbacks

\* The client is told of a success only when the dongle has all the end
\* points and callbacks of the port, whatever stale reset indications and
\* answers of earlier attempts are on their way: a registration the dongle
\* forgot in a reset, or never got, is not taken for one it has.  A dongle
\* that lost its power during the procedure is the exception, the answers it
\* gave before are taken for good.
SuccessMeansConfigured ==
    [][result' = "success" /\ state # "NULL" /\ state' = "NULL"
         => Configured \/ powerLost]_vars

\* The start-up procedure does not hang: as long as a dongle is plugged it
\* ends, with a success or a failure, though commands are ignored, lost in a
\* full buffer or answered too late.
StartCompletes ==
    [](state # "NULL" => <>(state = "NULL" \/ ~plugged))

\* A port that loses its TTY once it is started is started again without
\* anyone asking, whatever is left in its buffers.
LostTtyRestarts ==
    [](state = "NULL" /\ deviceFd # "live" => <>(state # "NULL"))

=============================================================================
