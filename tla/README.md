# TLA+ models of the KENMEC Modbus test panels and Redfish scripts

This directory holds the verification project for the programs under
`src/kenmec/`. It contains TLA+ modules, TLC configurations and TLAPS proofs.

## 1. The system

| Part | Source | What it is |
|---|---|---|
| Control-logic panel | `src/kenmec/python/control_logic_rtu_master.py` | A Tk window that acts as Modbus RTU master for the control-logic board. It offers status get, config get/set and manual read. A "Loop Manual Read" checkbox re-runs the manual read every 50 ms through a Tk `after` job. |
| I/O-board panel | `src/kenmec/python/io_board_rtu_master.py` | DO, DI, analog mode, AO/AI voltage/current and manual read. An "Auto Digital Output" checkbox re-runs the DO write every 500 ms. |
| RTD-board panel | `src/kenmec/python/rtd_board_rtu_master.py` | PWM frequency/duty set and get, PWM width, AD7124 resistance, RS-485 pressure and manual read. It has no timer. |
| Redfish OTA script | `src/kenmec/main_application/redfish/http_client_test_ota.py` | One multipart firmware upload. |
| Redfish mTLS GET | `.../https_client_test.py` | One HTTPS GET with a client certificate. |
| Certificate provisioning | `.../https_client_test_certificate_set.py` | GenerateCSR, local signing, then ReplaceCertificate for the server certificate and then for the root CA. |

**How the panels share state.** The three panels share no state with each
other. Each copies the same connection code:

- a global `modbus_client` (None until the first connect);
- `connect_modbus`, which opens the port to test it and then closes it again;
- `refresh_ports`;
- the three register helpers.

Each helper starts with `modbus_client.connect()`, which reopens the port.
That call sits outside the helper's `try`, so with no client it raises
AttributeError.

**Scheduling.** Each panel is one Tk thread. A handler (a button click, a
checkbox click, or a due `after` job) runs to the end before the next event
is taken. In every module a handler is therefore one atomic step. The hard
behaviours come from three sources:

- interleavings of clicks with timer jobs;
- exceptions that leave a handler half way;
- the operator typing into editable comboboxes.

**Scripts.** The Redfish scripts are straight-line programs with no loop and
no concurrency. What makes them interesting is the other side: the BMC.
The operator may run a script again after it failed. Each run is a fresh
process. Each `requests.post` opens its own connection, so a reply reaches
only the request it answers. The BMC may take a request after the client
gave up on it, refuse it, or never see it, and its reply may be lost. The
modules treat the BMC as an environment that does any of these.

## 2. Inventory and modules

| Module | Models | State (VARIABLES) | Actions |
|---|---|---|---|
| `RegisterMap` | address constants and formulas of all three boards; `value & 0xFFFF`, `(value >> 16) & 0xFFFF` | none (pure operators) | none |
| `ModbusTransport` | `modbus_client`, the port combobox, the connect button, the Result box, the three helpers | `present` (environment), `portList`, `portSel`, `client` (`NoClient` or `[port, open]`), `button`, `result`, `bus` (last request sent) | `RefreshPorts`, `SelectPort`, `ConnectModbus`, `Plug`/`Unplug` (environment); the helpers `ReadHoldingRegisters`, `WriteHoldingRegister` and `WriteHoldingRegisters` are used by the panels' actions |
| `ControlLogicPanel` | control-logic panel | transport plus `slaveEntry`, `addrEntry`, `qtyEntry`, `loopVar`, `afterId` (`manual_read_after_id`), `pending` (jobs Tk holds) | edits, `ControlLogicStatusGet`, `ControlLogicConfigGet`, `ControlLogicConfigSet`, `ManualReadButton`, `ScheduleManualRead(t)`, `ToggleManualReadLoop` |
| `IoBoardPanel` | I/O-board panel | transport plus the entries `auto_do_loop` reads, `autoDo`, `doJobs` (number of `auto_do_loop` jobs held) | edits, `DoButton`, `DiButton`, `AoButton`, `AiButton`, `AnalogSetMode`, `AnalogSetModeInvalid`, `ManualReadButton`, `AutoDoLoopFires`, `ToggleAutoDo` |
| `RtdBoardPanel` | RTD-board panel | transport only (its entries are read only by the clicked button, so they are action parameters) | one action per button |
| `PeriodicJob` | abstract: what a "loop" checkbox promises | `enabled`, `jobs` (at most one) | `Enable`, `Disable`, `Tick` |
| `CertificateProvisioning` | `https_client_test_certificate_set.py` and `https_client_test.py` | `pc` (the POST the run blocks in), `run`, `caFiles`, `inflight`, `replies`, `bmcServer`, `bmcTrusted` (issuers), `lastExit`, `getResult` | `StartRun`, `CsrReplied`, `ServerReplied`, `RootReplied`, `Timeout`, `MtlsGet`; BMC: `BmcHandles`, `RequestLost` |
| `FirmwareUpload` | `http_client_test_ota.py` | `otaPc`, `otaRun`, `fileExists`, `pending`, `answers`, `applied`, `exitCode` | `StartUpload`, `UploadReplied`, `UploadTimeout`; BMC: `BmcTakesUpload`, `UploadLost` |
| `MC*` | model-checking instances | | |
| `ModbusTransportProofs`, `ControlLogicProofs`, `IoBoardProofs`, `RtdBoardProofs`, `RegisterMapProofs`, `CertificateProofs`, `FirmwareProofs` | TLAPS proofs | | |

**The scripts, action by action.**

- `StartRun` is lines 45-47: the GenerateCSR POST.
- `CsrReplied` is lines 48-156, in four cases:
  - an error status makes `raise_for_status` raise;
  - an empty `CSRString` prints a message and the script ends with status 0;
  - `load_ca` raises when `ca.crt`/`ca.key` are missing;
  - otherwise the signed certificate is posted.
- `ServerReplied` is lines 157-177: a refusal is only printed, and the root
  CA is posted either way.
- `RootReplied` is lines 178-182: a refusal is only printed.
- `Timeout` is `timeout=30` of each of the three POSTs (lines 47, 156 and
  177). It raises outside every `try`.
- `OwnReply` (the guard of the three reply steps) and the guard
  `a.run = otaRun` of `UploadReplied` are not lines of the scripts. They
  model how `requests.post` works: each call reads the reply on the
  connection it opened, and each run is a fresh process. A late reply to
  an earlier run's request therefore never reaches the current run. This
  is an assumption about the HTTP stack, so no property is stated about it.
- `StartUpload` is the file check and the multipart POST. The
  `MultipartEncoder` and `files=` branches send the same request.
  `UploadReplied` prints the reply whatever its status.
- Certificates are abstracted to their issuer (`LocalCA` or `FactoryCA`).
  The mTLS GET succeeds exactly when the BMC serves a certificate of the
  local CA and trusts the local CA.
- `MtlsGet` assumes that `https_client_test.py` reaches the BMC the
  provisioning script set up, and that its CA file is the local CA. The
  script does not guarantee either: it connects to the fixed address
  `192.168.1.231:8443` with `Host: Dexatek.local`, and it verifies against
  `redfish_certification/root_ca/ca.crt` with the client pair
  `redfish_certification/client/client.{crt,key}`. The provisioning script
  loads `ca.crt`/`ca.key` from its own paths.

**Refinement.** `ControlLogicPanel` instantiates `PeriodicJob` as `PJ`,
with `enabled <- loopVar`, `jobs <- pending` and `Jobs <- TimerIds`.
The stored `manual_read_after_id`, the entries and the transport are hidden.
`ImplementsPeriodicJob == PJ!Spec` is checked by TLC. Its safety part,
`PJ!SafetySpec`, is proved.

**What is abstracted.**

- The entry texts are the integers the operator may type, plus `NotAnInt`
  for a text `int()` rejects.
- The Result text is one of a small set: `"value"`, `"values"`, the error
  texts, `"Invalid analog mode"`.
- `bus` records the last request put on the wire: the handler, the helper,
  the address, the argument and the words. The properties are stated over it.
- A request reaching the device may be answered normally, answered with a
  Modbus exception (`isError()`), or not answered (pymodbus raises).
- A request whose address or words do not fit 16 bits lands in `except`.
- A port that has been pulled makes the request raise.

**Exceptions leave a handler early.** The model follows each one:

- `int()` of the slave id;
- AttributeError when there is no client;
- UnboundLocalError when the analog port text is not A..D.

A handler that raises before changing anything is a guard that disables the
step. Where the raise also skips the filing of a timer job, the step still
happens with that part missing (`ScheduleManualReadBody`, `AutoDoLoopBody`).

**Not modelled.**

- Widget layout, the baud combobox (read-only, always an integer) and the OS
  label.
- Inside the Redfish scripts: argument parsing, payload JSON, the CSR
  parsing and extension copying, signing, PEM encoding and the progress
  printer. Only their outcome (which certificate the BMC ends up with)
  matters to the properties.
- The BMC's own code is not in this repository. It is an environment that
  may do anything the network and a Redfish server can do.
- A server that trickles bytes. `requests`' read timeout is per read, so
  such a server could keep a script waiting for ever. The models assume
  the timeout fires once the BMC goes silent.
- The I/O board's auto-DO loop is not refined to `PeriodicJob`. Its
  duplicate chains (finding 2) already break the one-job promise.
- Timing. Each handler is one atomic step, so a 1 s serial timeout blocking
  the Tk thread is out of reach.

## 3. Runs

| Run | cfg | Result | What it shows |
|---|---|---|---|
| `cl_safety` | `MCControlLogic.cfg` | pass (106k states) | `TypeOK`, `LoopJobTracked`: every pending loop job is the one `manual_read_after_id` names, and an unchecked box has none, whatever the order of clicks, edits, timer firings, exceptions and plugging. `ImplementsPeriodicJob`: seen through the checkbox and the pending jobs, the loop is one periodic job, and Tk runs a pending job. |
| `cl_loop_dies` | `MCControlLogicLoopDies.cfg` | **violation** | `LoopKeepsReading`: the loop dies while the box stays checked once `manual_read_cmd` raises (no client yet, or a slave id being retyped). |
| `io_safety` | `MCIoBoard.cfg` | pass (281k states) | `IoBusInRegion`: every request of an I/O function button lies in that function's region. `NoCrossFunctionAccess`: with the listed slots, channels and ports, no I/O button reaches another function's register. |
| `io_autodo_stops` | `MCIoBoardLiveness.cfg` | pass | `AutoDoStops`: after unchecking, the held `auto_do_loop` jobs die out unless the box is checked again. |
| `io_autodo_duplicate` | `MCIoBoardAutoDo.cfg` | **violation** | `SingleAutoDoLoop`: check, uncheck, check within 500 ms leaves two DO loops. |
| `io_typed_channel` | `MCIoBoardTyped.cfg` | **violation** | `NoCrossFunctionAccess` with channel 8 typed: DO writes the DI register of channel 0. |
| `io_mode_comment` | `MCIoBoardModes.cfg` | **violation** | `AnalogModeAsCommented`: mode 3 is written, which the code comment's list 0, 1, 2, 4, 5 excludes. |
| `rtd_safety` | `MCRtdBoard.cfg` | pass | `RtdBusInRegion`: every request of an RTD function button lies in its region. `RtdNoCrossFunctionAccess`: no RTD button reaches a register of another RTD function. |
| `cert_safety` | `MCCertificateProvisioning.cfg` | pass | `RunsEnd`: every run of the provisioning script ends, whether the BMC answers, refuses, loses or delays its requests, because each POST (the server-certificate one included) carries `timeout=30`. |
| `cert_clean_exit` | `MCCertificateCleanExit.cfg` | **violation** | `CleanExitMeansGetVerifies`: the script exits without a traceback while the mTLS GET still fails. |
| `ota_ends` | `MCFirmwareUpload.cfg` | pass | `UploadEnds`: every upload run ends, because the POST carries a connect and a read timeout. |
| `ota_exit_status` | `MCFirmwareExitStatus.cfg` | **violation** | `CleanExitMeansApplied`: an upload the BMC refuses and answers ends with exit status 0 (line 106 prints the status and returns), so a clean exit does not mean the image was applied. |

**Bounds.**

- Ports: one port for the control-logic runs. Plugging, pulling and
  clicking before a connect already give every way a loop read can raise.
  The I/O and RTD runs use the same single port. The region properties
  are about addresses, not about which port carries them.
- Slots and channels: the first and last listed values, so the largest
  offsets are reached.
- Values: one value above 16 bits (70000 or 100000), so the 32-bit split and
  the "except error" path of a 16-bit write both occur.
- Quantities: 100 and 0, so both the warning path and a multi-register read
  occur.
- Timer ids: three Tk job ids, enough for one live job, one stale id and a
  fresh id. They are model values. No symmetry is used, because the
  control-logic runs check temporal properties.
- Script runs: two provisioning runs and three upload runs. With these,
  a request of a timed-out run can be taken and answered during the next
  run.
- `MaxAutoDoJobs = 2`: the first count the auto-DO loop must never reach, so
  the duplicate is seen and the job count stays finite. It is a cut of the
  state space, not code: `AutoDoLoopFires` and `ToggleAutoDo` file a new
  job only below it, so behaviours with three or more held jobs are not
  explored.
- `PressureIds = {1, 32}`: the first and last valid RS-485 ids. The id 0
  of hazard H6 (one register below the pressure table) is not among them,
  so the off-table read is not checked; only the absence of a hit on
  another RTD function is.

TLC's integers stop below 2^31. The 32-bit truncation is therefore proved
rather than checked (section 5).

Every passing property has a mutant in `PROJECT.json`: a plausible bug in
the mapped code that TLC must catch.

- `ConnectModbusNoPortCheck` drops the "select a COM port" check.
- `ToggleManualReadLoopNoCancel` forgets `after_cancel`.
- `AnalogAddressByteStride` uses 4 registers per analog port.
- `AutoDoLoopFiresUnchecked` skips the `auto_do_var` test.
- `PwmDutyGetTwoRegisters` reads two registers like its neighbours.
- `TimeoutWithoutServerPostTimeout` drops `timeout=` from the server POST.
- `UploadTimeoutConnectOnly` uses `timeout=(5, None)`.

## 4. Fairness

Tk's `mainloop` runs every due `after` job. This is the only fairness the
code justifies:

- `WF_vars(ScheduleManualRead(t))` for each job id;
- `WF_vars(AutoDoLoopFires)`.

No operator action is fair, because the operator owes the program nothing.

The scripts have one fairness condition each: `WF_vars(Timeout)` and
`WF_vars(UploadTimeout)`. These are requests' `timeout=` arguments. The BMC
owes no reply, so none of its actions is fair. The upload runs set
`CHECK_DEADLOCK FALSE`: once the operator has made every run, the system
stops.
`LoopKeepsReading` fails even with this fairness: once the callback raises,
no job is left to fire.

## 5. Proofs (TLAPS)

**`ModbusTransportProofs`.** Lemmas that each helper and each connection
step preserves `TransportTypeOK`.

- `SendTypeOK` carries most of the argument: a request reaches `bus` only if
  it is encodable, so its address and words are 16-bit values.
- `ReadBus`, `WriteRegisterBus` and `WriteRegistersBus` say what a helper
  puts on the bus: nothing, or exactly the request of the call.
  `TouchedRead`, `TouchedWriteRegister` and `TouchedWriteRegisters` give
  the registers that request touches. `TransportNextBus` says the
  connection steps send nothing. The board panels' region proofs rest on
  these.

**`ControlLogicProofs`.**

- `TypeCorrect`: `Spec => []TypeOK`.
- `LoopJobTrackedInvariant`: `Spec => []LoopJobTracked`.

Both rest on the inductive invariant `IInv == TypeOK /\ LoopJobTracked`:

- `InitIInv` shows the initial states satisfy it.
- `NextIInv` shows each step preserves it, with one step per handler.

`LoopJobTracked` alone is not inductive. The case that needs the
strengthening is a timer firing: the proof needs that the job that just ran
was the stored one, so that the body of `schedule_manual_read` leaves exactly
one pending job. The toggle case needs that an unchecked box has no stored
id. The proofs hold for every set of ports, entry values and job ids allowed
by `ControlLogicAssumption`.

**`IoBoardProofs`.**

- `IoTypeCorrect`: `Spec => []TypeOK` for the I/O panel. `TypeOK` is
  inductive as it stands. The step that needs care is `auto_do_loop`: the
  lemma `AutoDoBodyTypeOK` shows that a body run from a job count in
  `0..MaxAutoDoJobs` leaves it there, because a new job is filed only below
  the bound. The analog buttons need `AnalogTablesInt`: only a listed port
  letter gets past the guard, so the register offset is an integer.
- `IoBusInRegionInvariant`: `Spec => []IoBusInRegion`. It is stated under
  the hypotheses `Slots \subseteq ListedSlots` and
  `Channels \subseteq ListedChannels`: the values the comboboxes list. With
  a typed channel the property fails, which is the violation run
  `io_typed_channel`. The invariant is inductive given `TypeOK`. A step
  sends nothing, or one request whose registers its handler's address
  formula puts in the region (`DoWriteInRegion`, `DiReadInRegion`,
  `AoWriteInRegion`, `AiReadInRegion`, `SetModeInRegion`). The manual read's
  handler name `"manual"` is no function's, and the transport steps leave
  `bus` alone (`TransportNextBus`).
- `IoNoCrossFunctionAccess`: `Spec => []NoCrossFunctionAccess`, under the
  same hypotheses. `NoCrossFunctionAccess` is not inductive by itself: it
  says nothing of where a request lies, only where it does not. The proof
  goes through `IoBusInRegion`, plus `IoRegionsDisjoint`: each register of a
  region is `START + 100 * slot + o`, with `o` in the function's band
  (`IoRegionBand`). The bands 1..8, 9..16, 17..20, 37..44, 45..52, 53..60 and
  61..68 are disjoint and lie inside 1..99, so two regions never meet.

**`RtdBoardProofs`.**

- `RtdTypeCorrect`: `Spec => []TypeOK` for the RTD panel. `TypeOK` is the
  transport's type and is inductive as it stands. Each button is one use of
  a helper lemma of `ModbusTransportProofs`, because its count or value is
  an integer (`RtdBoardAssumption`).
- `RtdBusInRegionInvariant` and `RtdNoCrossFunctionAccessInvariant`: the
  same two results for the RTD panel. The hypotheses are the listed slots
  and channels, and the RS-485 ids 1..32. `RtdBusInRegion` is inductive as it
  stands. The channel reads share one lemma, `ChannelReadInRegion`: a read of
  `k` registers at `base + channel * k`, for `k` in {1, 2}. The bands
  504..505, 506..513, 514..521, 522..537, 538..553, 554..569 and 578..609 are
  disjoint inside a slot's 1000 registers.

**Refinement (`ControlLogicProofs`).**

- `RefinesPeriodicJob`: `Spec => PJ!SafetySpec`.
- `StepRefines` shows each panel step is `Enable`, `Disable`, `Tick` or a
  stutter of the abstract job. It needs `IInv`: a job that runs is the only
  pending one, and checking the box starts from no job.
- `BodyFilesAtMostOne` says the body of `schedule_manual_read` adds at most
  one job, with a fresh id.

**`CertificateProofs`.**

- `ProvisioningTypeCorrect`: `Spec => []TypeOK`, for every `MaxRuns`.
  `TypeOK` is inductive by itself. A run posts its next request under its
  own number, which it takes from its own reply (a member of `Replies`),
  so no request is filed under a run number past `MaxRuns`.

**`FirmwareProofs`.**

- `UploadTypeCorrect`: `Spec => []TypeOK`, for every `MaxRuns`. `TypeOK`
  is inductive by itself.

**`RegisterMapProofs`.** These hold for every integer.

- `Encode32Truncates`: the device reads back `v mod 2^32`. The code
  therefore truncates where the spec asks for an Overflow error.
- `Encode32RoundTrip`: the round trip is exact on `0..2^32-1`, the spec's
  law.
- `Encode32Wraps`: values 2^32 apart put the same words on the bus.
- `Encode32Words`: the split always yields two 16-bit words.
- `IoAddressUnique`: the I/O address formula is injective in (slot, in-slot
  offset) for offsets 0..99 and every slot.

**What stays with TLC.**

- The liveness properties (`AutoDoStops`, `LoopKeepsReading`, `RunsEnd`,
  `UploadEnds`) and the fairness part of `ImplementsPeriodicJob`.
- The violations (`io_typed_channel` and the other violation runs). These
  are counterexamples, not theorems.

TLAPS does not handle fairness or ENABLED. Every safety invariant of a
passing run is now proved for every value of the constants. The
cross-function properties are proved under the listed-range hypotheses,
which the code's comboboxes justify.

## 6. Findings

1. **Manual-read loop dies silently** (`control_logic_rtu_master.py:234`).
   An exception inside `manual_read_cmd` leaves `schedule_manual_read`
   before `window.after`. The box stays checked and nothing reads.
2. **Auto-DO loops multiply** (`io_board_rtu_master.py:155`). No job id is
   kept, so an uncheck/recheck within 500 ms runs two DO-writing chains.
3. **Typed channels alias other functions** (`io_board_rtu_master.py:147`,
   editable combobox at line 350). The spec asks for an OutOfRange error.
4. **Analog-mode comment disagrees with the code**
   (`io_board_rtu_master.py:257` vs `265`).
5. **32-bit values are truncated, not rejected** (`control_logic_rtu_master.py:132`,
   same code in the I/O and RTD panels). This is proved by
   `Encode32Truncates`.
6. **A clean exit of the certificate script does not mean provisioned**
   (`https_client_test_certificate_set.py:183`). An empty `CSRString`, or a
   refused ReplaceCertificate (printed at lines 160-161 and 181-182), ends
   with status 0. The BMC then keeps the factory certificates.
   `cert_clean_exit` prints TLC's shortest counterexample, the empty
   `CSRString`. A refused root POST after an accepted server POST (lines
   177-182) breaks the same invariant with a longer trace: the BMC is left
   with a local server certificate and the factory root.
7. **The upload script exits 0 on a refused image**
   (`http_client_test_ota.py:106`). The status is printed, never checked.
   `ota_exit_status` shows it: the BMC refuses the upload and answers, and
   the run exits 0 with nothing applied.

A read timeout after the BMC applied the image also ends with status 1
(`http_client_test_ota.py:85`). The model reaches that state. Nothing in
the script, its comments or the spec says what status 1 promises, though,
so no property is checked about it (hazard in `PROJECT.json`).

## 7. Plan for later work

- A property relating the button colour, the client port and `portSel`.
  No comment or spec text says what the colour must show yet.
