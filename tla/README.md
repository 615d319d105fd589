# Formal models of the BitLoom drivers

TLA+ models, TLC configurations and TLAPS proofs for the C code of this repository: the drivers
for the SSD1306 OLED display and the HMC5883L compass, and the graphics library on top of the
display driver. Line numbers refer to the files under the repository root (`src/ssd1306/ssd1306.c`
and so on).

## 1. The system

The code runs under BitLoom's cooperative scheduler. Every component is a singleton (`static
struct ... self`), every function returns at once, and every piece of work that takes time is cut
into steps made by a *run* function that the scheduler calls over and over. There is no preemption
between these functions; what happens between two runs is: calls of the application, runs of the
other tasks, and the I2C task, which carries out transfers through the pointers it was given.

| component | state | operations | talks to |
|---|---|---|---|
| SSD1306 driver, `src/ssd1306/ssd1306.c` | state, operation step, command waiting (`commandType`, `commandBuffer`), `operationOngoing`, `commandResult`, delay counter, addressing mode, window, result pointer | `ssd1306_initDisplay`, 18 single-command requests, `ssd1306_sendGraphicsData`, three unguarded setters, `ssd1306_run` | the I2C master; results through a pointer |
| HMC5883L driver, `src/hmc5883l/hmc5883l.c` | state, values for two configuration registers and which were requested, `i2cResult`, one buffer, result pointer | `hmc_set_config_reg_A/B`, `hmc_start_single_measurement`, `hmc_get_measurement_data`, `hmc_task_run` | the I2C master; results through a pointer |
| I2C master (HAL, another repository) | the transfer in flight | accept or refuse a request; end a transfer well or badly | reads and writes the drivers' buffers and result variables |
| Framebuffer, `src/graphics/framebuffer.c` | one bit per pixel, the dirty rectangle, copy position, lock and dirty flags | pixels, blit, lock, `framebuffer_show`, the two ways of taking the dirty area | memory shared with a transfer |
| Graphics task, `src/graphics/graphics.c` | state, display result, show request, `operationOngoing` | `graphics_show`, `graphics_run` | framebuffer and display driver |
| diagnostics | none | `hmc_print_*` (DEBUG builds), `hmc_status_register_req` (empty) | UART |

**What is hard here.** Two drivers share one bus, so a request may be refused at any step and has
to be repeated without losing or duplicating it; transfers end asynchronously and may fail; the
buffers are handed over by pointer and must not change under a transfer; results are written
through a pointer that belongs to a client, and a result variable may still hold the answer to an
earlier question; a delay is counted by a byte that is never reset; the setters of the display
driver are not guarded by its state, and neither is the start of a measurement; the graphics task
learns of the end of a transfer through the display driver's result only. `PROJECT.json` lists
these hazards at their lines with the properties that watch them.

**What makes each component correct.**

* SSD1306: what reaches the bus is the script of the operation in progress, in order, whole, from
  buffers that do not move; the power-up delay is respected each time; the data reaches a
  controller whose window is the configured one; accepted operations end and say so.
* HMC5883L: "ok" means that this measurement was configured, started and read; what the client
  then reads is what the sensor measured with the configuration asked for; a started measurement
  ends.
* Framebuffer: every modified segment lies inside the dirty rectangle until it has been handed
  over; the pieces handed over tile that rectangle; a blit draws the visible part of the object.
* Graphics: nothing drawn is forgotten on its way through framebuffer, graphics task, display
  driver and bus; after a show request, what was drawn before it eventually is on the display; a
  locked framebuffer is unlocked again.

## 2. Modules

| module | models | kind |
|---|---|---|
| `I2cMaster` | the HAL's I2C master, from how the drivers use it: who owns the transfer in flight | external |
| `Ssd1306` | `ssd1306.c`, all of it, with the controller's registers that the properties read | specification and properties |
| `Ssd1306Proofs` | theorems about `Ssd1306` | proofs |
| `DisplayDriver` | what the display driver promises its clients, without steps, flags and pointers | abstract specification |
| `Ssd1306Refinement` | `Ssd1306` with its refinement mapping to `DisplayDriver` | refinement |
| `Ssd1306RefinementProofs` | the theorem that the driver implements `DisplayDriver` | proofs |
| `MCSsd1306` | instances for TLC | model checking |
| `Hmc5883l` | `hmc5883l.c` without the DEBUG output, with its refinement mapping to `CompassDriver` | specification and properties |
| `CompassDriver` | what the compass driver promises its clients, without states, buffer and pointers | abstract specification |
| `Hmc5883lProofs` | theorems about `Hmc5883l`, among them that it implements `CompassDriver` | proofs |
| `MCHmc5883l` | instances for TLC | model checking |
| `FramebufferGeometry` | limits of `framebuffer.c`, positions of segments, the visible part of an object | operators |
| `Framebuffer` | `framebuffer.c` up to the pixels: dirty rectangle, lock, handing over | specification and properties |
| `FramebufferProofs` | theorems about `Framebuffer` | proofs |
| `FramebufferCopyProofs` | that the pieces of a copy tile the dirty rectangle | proofs |
| `FramebufferBlit` | `framebuffer_blit` row by row: which pixel goes where, which rows are read | specification and properties |
| `FramebufferBlitProofs` | theorems about `FramebufferBlit` | proofs |
| `GraphicsSystem` | `graphics.c` composed with `Framebuffer`, `Ssd1306`, the bus and the memory of the display | specification and properties |
| `GraphicsLibrary` | what the graphics library promises an application, without driver, bus and rectangle | abstract specification |
| `GraphicsProofs` | theorems about `GraphicsSystem`, on top of `FramebufferProofs`, among them that it implements `GraphicsLibrary` | proofs |
| `GraphicsDriverProofs` | what `Ssd1306Proofs` shows, for the display driver inside `GraphicsSystem` | proofs |
| `MCFramebuffer`, `MCFramebufferBlit`, `MCGraphicsSystem` | instances for TLC | model checking |

### I2cMaster

`hal/i2c.h` is not in this repository. The drivers call `i2c_masterTransmit`,
`i2c_masterTransmitRegister` and `i2c_read_register` and compare the answer with `i2c_request_ok`:
`Accept` is that answer, `Refuse` any other. `bus` is free or names the user whose transfer is in
flight. One transfer at a time is the assumption that makes the drivers' single result variable
meaningful. The module that extends `I2cMaster` states what the end of a transfer does: it writes
ok or an error to the result variable, and the device may have acted on a transfer that failed.
Accepting sets the result variable to "processing" (both drivers rely on it: they wait as long as
the variable says so).

### Ssd1306

One action per function of the API and one per way through `ssd1306_run`:

| action | code |
|---|---|
| `InitDisplay`, `SendGraphicsData` | `ssd1306_initDisplay` (323), `ssd1306_sendGraphicsData` (736) |
| `SingleCommand` | the 18 requests of the form *state check, prepare..., createSingleCommandRequest* (336-731); the request is accepted even when `prepare...` rejects the argument |
| `SetMemoryAddressingMode`, `SetColumnAddress`, `SetPageAddress` | the unguarded setters (449, 463, 490) |
| `RunWaits`, `RunTransmits`, `RunRefused` | the first half of `ssd1306_run` (143-180) |
| `Dispatch(s)` | falling through to the switch with state `s`: a transfer that is over clears `operationOngoing` and `commandType` |
| `RunInitDelay`, `RunInitStep`, `RunInitDone` | `initDisplay` (198-272) |
| `RunSendColumn`, `RunSendPage`, `RunSendBuffer`, `RunSendDone` | `sendData` (274-298) |
| `TransferSucceeds`, `TransferFails`, `OtherUser` | the I2C task and the other driver |

A refused call (`ssd1306_request_busy`) changes nothing and is not a step. Commands are records of
the controller register they write and their argument bytes: two opcodes that write the same
register are the same `reg`. `panel` is what the controller has received; only power, mode and
window are kept. The step of an operation keeps the numbers of `ssd1306_operation_step_t`.
`transfers`, `waited`, `failed` and `reconfigured` are history variables: no action reads them.
`operationResult` is the client whose variable the pointer points to; that client's variable may
hold anything from before, which `Init` leaves open.

### DisplayDriver and Ssd1306Refinement

What a client may count on, in six actions: an operation is accepted when none is in progress; its
commands begin and end one at a time, at most 13 for `initDisplay`, 3 for a send, 1 for a single
command; it is done, and its client reads ok, when all of its commands have ended. The mapping is
`operation <- state`, `client <- operationResult`, `sending <- (bus = Me)`, `ended <- transfers`:
the delay, refused offers, waiting runs and setters are stutters. A send has between one and three
commands, because a setter called during it decides whether the window goes along.

### Hmc5883l

`Steps` is the state machine of `hmc_task_run` as a table: the sending state, its register, the
state that waits, and the state after. `RunSend`, `RunRefused` and `RunWait` are the ways through
`hmc_task_run` for a row of the table, each ending with `EndOfRun`, the check after the switch
(170-174), which runs whatever the switch did. `hmc_start_single_measurement` does not look at the
driver's state. `hmc5883l.h` (4-7) asks the application to wait until the driver is ready; the
model's clients do so as far as they can tell (`Ready`: no result variable reads processing). The
branches for bits already SET (187-196) cannot be taken, because the comparison in line 180 fails
as soon as one of them is set and no code sets one; the model keeps the bits out and the type
invariant states that they stay out. `chip` holds the sensor's two configuration registers and the
last sample; the time the sensor needs for a conversion is not modelled. `reconfigured` is a
history variable: the registers that were set since they were last sent, which is all that
`SensorConfigured` excuses, register by register.

### CompassDriver

One measurement at a time, of four commands, the third of which makes the sensor measure. It names
what a client may rely on and what not: between the beginning of a measurement and its result,
`hmc_get_measurement_data` returns anything; after an ok it returns the sample taken in this very
measurement, and returns the same until the next one begins; an error means that a command of this
measurement failed, or that none had been sent (a request that was refused at the first step meets
the error of the measurement before, the finding `hmc5883l_stale_error`). A client that starts a
measurement before both registers were set, which `hmc5883l.h` (90-91, 102-103) asks it not to do,
is never answered. The mapping, in `Hmc5883l`:
`measuring <- (state # "idle")`, `client <- opResult`, `sending <- (bus = Me)`,
`ended <- Len(done)`, `broken <- failed`, `sample <- chip.sample`,
`reading <- GetMeasurementData(i2cBuffer)`. Requests that are refused and the settings of the
registers are stutters, or `CommandWaits` when they write the buffer.

### FramebufferGeometry and Framebuffer

The memory is modelled by `changed`: the positions of the segments written and not handed over
since. `SetPixel` (210-248, set and clear) and `Blit` (268-402) add positions to it and end with
`UpdateDirtyArea` (179-205), with the corner wrapped to bytes as the call wraps it. A blit at a
negative coordinate draws nothing: the limits are unsigned constants, so the comparison in lines
285-286 takes it to be outside; `AsUnsigned` models the conversion. `GetDirtyAreaBuffer` hands
over whole rows by a pointer (68-97). `CopyDirtyArea(n)` is one call with a buffer of `n` segments
(118-164): `Path` is the position after each turn of its loop, `Turns` where the loop stops,
`Piece` what it copies. The functions do not look at the lock; the application does, as
`framebuffer.h` asks: it draws only while the framebuffer is not locked, copies only while it is,
and neither unlocks nor takes the whole buffer in the middle of a copy.

### FramebufferBlit

One call of `framebuffer_blit`, one action per turn of its loop over the rows of the framebuffer
(359-398) and one per branch in it: `FirstRow` (the object begins here), `LastRow`
(`obj_current_row == obj_last_row`), `InnerRow`. The values of pixels are left out. `drawn` says
which pixel of the object has been put where, `read` which rows of the object's data were read.
`Shifted` is the shift of a byte by `y % 8` with what falls out of it.

### GraphicsSystem

`INSTANCE`s of `Framebuffer` and `Ssd1306`, each with its own variables, and the variables of
`graphics_t`. An action of the system is an action of one of them, or a run of the graphics task,
which calls both in one step:

| action | code |
|---|---|
| `DrawPixel`, `DrawObject`, `Show` | the application; `graphics_show` (106-110) |
| `RunWaits` | the early return while the display works (44-50) |
| `RunInit`, `RunClear`, `RunShow`, `RunIdle`, `RunSent` | the states of `graphics_run` (59-102) |
| `SetWindow`, `DriverAccepts`, `DriverRefuses` | the calls of the display driver; the window is set whatever the answer |
| `DriverRuns`, `TransferSucceeds`, `TransferFails`, `OtherUser` | `ssd1306_run`, the I2C task, the other driver |

`displayResult` is the client's result variable of `Ssd1306`. `stale` is the set of segments that
may show something else than the framebuffer holds. The data of a transfer is read from the
framebuffer while it is in flight: `inFlight` are the segments being sent that nobody has drawn to
since the transfer began; only they are up to date when it succeeds, and only if it *lands*, that
is if the controller is in horizontal mode with the window that belongs to the data, and the data is
the framebuffer's. If it does not, or if it fails, the whole display counts as stale. `lost` and
`overtaken` record the two excuses the properties allow: a transfer that failed (`Handle error`,
`ssd1306.c` 157-160, is empty) or sent memory behind the framebuffer, and a window that was moved
during a send (see `graphics_window` below). A buffer reaches behind the framebuffer when the rows
of the dirty rectangle are crossed and its length has wrapped (`Runaway`, see
`framebuffer_empty_blit`); the display is then overwritten with whatever follows in memory.

The module assumes of its constants that the window `graphics_run` asks for is that of the
framebuffer, that the display has at most 128 columns and 8 pages, that the arguments of a blit
are the C types' (`int8_t` places, `uint8_t` sizes), that "ssd1306" is a user of the bus, and that
`NULL` is no buffer.

The lock is shorter than its description. `ssd1306_sendGraphicsData` does not write "processing",
so the display result still reads ok at the next run of the graphics task, which then unlocks the
framebuffer (`graphics.c` 98-102) while the transfer has hardly begun; `graphics.h` (35-38) says
"When all data has been sent, the framebuffer will be unlocked". The model follows the code.
`NothingForgotten` and `Displayed` show what saves the data nevertheless: what is drawn too early
is dirty again and goes with the next show.

### GraphicsLibrary

The library as an account of segments: `drawn` and not taken, `due` on their way, `wrong` on the
display, `lost` to a transfer that failed or left the framebuffer. Six steps move segments between
these: the application draws (never while a show is on), a show is asked for, the library takes all
that was drawn (for a show, or once at power-up, when everything counts as drawn), segments arrive,
a transfer fails, and after a window was moved a transfer may end up in the wrong place. A show is
over only when nothing drawn is left to take. The mapping: `showing <- showRequested`, `drawn <-
changed`, `wrong <- stale`, `moved <- overtaken`, and `due` is what the driver has still to send or
is sending, and what the graphics task took and the driver refused (`Due`). Of the driver's work,
only the end of a data transfer and a failure are steps; the rest is a stutter.

## 3. Runs

`Init` of both drivers is the state after their init function, with the clients' result variables
arbitrary.

**`ssd1306`** (`MCSsd1306.cfg`, about 300 000 states). One client, which may make any call of the
API at any time, the other driver on the bus, failures at every transfer, both expected failure
outcomes at the controller. Checked: `TypeOK` and the inductive invariant `DriverInv`;
`IdleMeansQuiet`, `TransferAccounting`, `DelayRespected`, `InitResultHonest`; the action
properties `BufferStable`, `ScriptFollowed`, `DoneMeansTransferred`, `DataLandsInWindow`; the
liveness properties `InitCompletes` and `SendCompletes`; and `ImplementsDisplayDriver`, the
abstract specification under the refinement mapping. The run shows that an operation sends exactly
its script whatever is refused and whatever fails, that the power-up delay holds at the second
initialisation, too, and that both kinds of operation end.

**`hmc5883l`** (`MCHmc5883l.cfg`, about 67 000 states). Two clients, two configuration values, two
samples that differ in every byte. Checked: `TypeOK`, the inductive invariant `MeasurementInv`,
`TransferAccounting`, `DataIsSample`, `SensorConfigured`, `BufferStable`, `OkMeansMeasured`, the
abstract specification under the mapping (`ImplementsCompassDriver`) and the liveness property
`MeasurementEnds`.

**`framebuffer`** (`MCFramebuffer.cfg`, about 6 000 states). 3 by 3 segments, every pixel, blits
that are clipped, shifted across rows, empty or at a negative place, buffers of 0, 1, 2 and 5
segments. Checked: `TypeOK`, `DirtyCovers` (nothing drawn is lost), `CopyInv`; the action properties
`WholeHandedOver` (the buffer handed over contains the dirty area and is inside the framebuffer
whenever there is something in it), `CopyTiles` (the pieces are the dirty segments, each once, in
order), `ErrorOnlyForEmpty`; the liveness property `CopyEnds`, under weak fairness of the copy with
a buffer that is not empty: whoever copies goes on until nothing is left, as `framebuffer.h` asks.
`WholeHandedOver` holds of every rectangle, the crossed ones too: a blit of height 0 at the upper
border of a row that is the only one since the last show leaves a last row before the first, and the
length computed from it (85) is then zero or, wrapped, far beyond the memory. That is the one
exception the property makes (`y1 > y2`), and it says that nothing has been drawn then; the run
`framebuffer_empty_blit` shows that the exception happens. `CopyTiles` is about a rectangle with
segments in it (`Proper`), of which a copy has something to tile.

**`framebuffer_blit`** (`MCFramebufferBlit.cfg`, about 15 000 states). 4 by 3 segments, every y
from above the framebuffer to below it, heights around one and two whole rows. Checked: `TypeOK`;
`DrawsVisible`: all visible pixels of the object at their places, none beside the framebuffer;
`DrawnInArea`: nothing is drawn outside the rectangle declared dirty; `ReadsInObject`: the loop
reads behind the data of the object, one row, exactly for the objects `Overrun` describes, those
of a whole number of rows that are not drawn at a whole row and end above the lower border
(`obj_last_row`, 347-356, is then one too large). The pixels of that row are drawn below the
object, in the same row of segments. Deadlock is not checked here: the function returns.

**`graphics`** (`MCGraphicsSystem.cfg`, about 132 000 states). Objects of height 8 and of height 0,
across both rows and in the lower one. Checked: `TypeOK`; `NothingForgotten` and the inductive
invariant `DisplayInv` behind it; the action property `ShowNotLost`: a request that is taken back
has been served; `ImplementsGraphicsLibrary`, the abstract specification under the mapping, which
contains that nobody draws while a show is on and that nothing is taken unasked; the liveness
properties `ShowEnds` (a locked framebuffer is unlocked again) and `Displayed` (what is taken from
the framebuffer reaches the display).

**Disagreements between the code and its documentation.** Each of these runs checks one statement
of a header or a comment, and TLC finds a behaviour that contradicts it:

| run | statement | what happens |
|---|---|---|
| `ssd1306_single_command` | every accepted command is processed and its result published (`ssd1306.h` 20-23) | after a single command, transmitted or rejected for its argument, the driver stays in its state for ever, publishes nothing and is busy for everybody (`ssd1306.c` 189-191, "Not implemented") |
| `ssd1306_mode` | the addressing mode "will be used when data is sent" (`ssd1306.h` 101-102) | a mode set after `initDisplay` chooses the commands of a send, but the controller never hears of it |
| `ssd1306_send_result` | the buffer belongs to the driver until the result is ok (`ssd1306.h` 211-213) | `sendGraphicsData` does not write processing, so a variable left at ok reads ok at once |
| `hmc5883l_stale_error` | what is published is the result of the operation (`hmc5883l.h` 103-105) | the error of an earlier measurement ends a new one whose first transfer is refused |
| `framebuffer_empty_blit` | the buffer handed over contains the dirty segments, and its length is their number of bytes (`framebuffer.h` 25-31) | a blit of height 0 at the upper border of a row, alone since the last show, leaves the last row before the first one, and the `uint16_t` length (`framebuffer.c` 85) wraps to more than 65 000 |
| `blit_truncates` | an object partly outside is truncated (`framebuffer.c` 283-284) | one that begins left of or above the framebuffer is not drawn at all; the code for it (294-298, 323-345) is never reached |
| `graphics_window` | a show sends the contents of the framebuffer (`graphics.h` 8-12) | a show while the display is still being cleared moves the window of that transfer, whose data lands in the wrong rows and is never sent again |

**Bounds, and why they are enough.**

* `InitDelay = 2`, `DelayMod = 5` stand for 100 and 2^8. What matters is that the counter passes
  the value, has room beyond it, and wraps: after the first initialisation it stands at 3, so the
  second one starts beyond the value it is compared with. The theorem `DelayKept` covers every
  pair with `InitDelay < DelayMod`.
* One client of the display driver: a call is refused in the same way whoever makes it, and only
  one operation is in progress at a time; a second client multiplies the states by four without a
  new situation. The theorems hold for any number.
* `Bytes = {16, 65}`: 16 is legal for every request with a range check except the oscillator
  frequency, 65 is out of range for all of them. Contrast takes both.
* The windows of `MCSsd1306` have a legal pair and one with an end off the display, so that
  `Window` takes one end and keeps the other.
* `addressingMode` ranges over 0..3: the fourth value is refused.
* Two users of the bus: what the driver sees of any number of others is a refusal.
* The framebuffer has one row and one column between its edges, which every loop and merge has to
  cross; 5 segments is more than a row and less than all, 1 stops at every place.
* The graphics system has a display of 1 column and 2 rows, whose window is `LastColumn = 0` and
  `LastPage = 1` where the code says 127 and 7: two rows are what it takes to have a dirty area
  that does not begin at the top, to draw in one row while the other is sent, and to move a
  window. One object covers both rows, one the lower row, and the same places are used without a
  height: the rows of the rectangle are then crossed. In a display of one column the length of a
  crossed rectangle is 0 and does not wrap, because a buffer of 65 000 segments is out of TLC's
  reach; the theorems of section 4 are for every width and contain the wrapped lengths.
  `InitDelay = 1`: the delay is the business of the run
  `ssd1306`.
* The blits have heights of 0, 1, and 7 to 9, 15 to 17 around whole rows, and places left of,
  above, on and behind every border; four columns are room for an object with space on both sides.
* No counter is unbounded: `copied` restarts with each copy, `transfers` is reset by each
  operation and `waited` stops at `InitDelay + 1`.

Deadlock is checked everywhere but for the single call of `framebuffer_blit`; the scheduler always
has a run to make.

**Fairness.** The scheduler polls each driver for ever: weak fairness of `Run`. A transfer in
flight ends, well or badly, and so does one of the other driver: weak fairness of the transfer
actions (an I2C transfer has a bounded number of bytes and the HAL reports errors). A driver that
is polled again and again and finds the bus free again and again is not refused for ever: strong
fairness of the accepted request. In this system that follows from the order of the runs: between
the end of a transfer of the compass driver and its next request lie two runs of `hmc_task_run`
(one sees the result and changes the state, the next makes the request), so when every task runs
once per round, a run of the display driver falls between them and finds the bus free; it is the
same the other way round. The graphics task is polled like the drivers: weak fairness of its
`Run`. No fairness is assumed of the calls of clients; only a copy of the framebuffer, once begun,
is carried on.

## 4. Proofs

TLC checks the instances above; TLAPS proves the following for every set of clients, buffers and
users, every `InitDelay < DelayMod`, all byte values and all samples. The assumptions are the
named `ASSUME`s of the modules: the driver is a user of the bus, "free" and `NULL` name nobody,
inputs are bytes, samples are three 16-bit words, and what section 2 says of `GraphicsSystem`.

*SSD1306* (`Ssd1306Proofs`). `TypeCorrect` first, with the flags proved separately from the rest.
None of the properties is inductive: that a transfer is the next one of its script, say, needs
that the command waiting was prepared by the step before. `DriverInv` is the strengthening:

* `FlagsInv`: the flags of `ssd1306_run`, the bus and the state agree; idle implies that no
  command waits;
* `InitOpInv`, `SendOpInv`, `SingleOpInv`: within an operation, the transfers made plus the one
  *outstanding* (prepared, and its transfer not over) determine the step, and the outstanding
  command is that of the step before;
* `DelayInv`: the counter is zero, past the value, or has been counted in this very operation (so
  it is no greater than the number of runs waited): this is what carries the delay through the
  wrap-around;
* `InitResultHonest`;
* `WindowInv`: what the controller's window is after one and two transfers of a send.

`DriverInvariant` is proved from lemmas per conjunct, each by cases over the actions. From it:
`IdleQuiet`, `Accounting`, `DelayKept`, `InitHonest` (invariants), and `BuffersKept`,
`ScriptKept`, `DoneKept`, `WindowKept` (action properties).

All of this is proved once for the driver in *any* surroundings: `OpenSpec` lets a client ask for
an operation and set window and mode in one call, to any values the controller knows, which is
more than the clients of `Ssd1306` do (each call an action of its own) and is what `graphics_run`
does. The lemmas `Open...` are about `OpenSpec`; the theorems about `Spec` follow, since every
step of `Spec` is one of `OpenSpec` (`CallsOpen`), and `GraphicsDriverProofs` uses them again.

*HMC5883L* (`Hmc5883lProofs`). `HmcTypeCorrect`; then `MeasurementInv`: `TransferAccounting`,
`ResultHonest` (which makes a client that is `Ready` one that meets an idle driver), `ProgressInv`
(the place in the sequence is what has been transferred, a command of this measurement has failed
exactly if the result variable says so, and only the first step can meet an old error), `ConfigInv`
(what is in the sensor and what is on its way) and `DataInv` (what was read stays in the buffer).
From it `HmcAccounting`, `HmcResultHonest`, `SampleRead`, `SensorHasConfiguration`, `HmcBufferKept`
and `OkIsMeasured`. `ReadBack` is the lemma that the six bytes in the sensor's order X, Z, Y come
back as the sample.

*The compass driver implements its specification* (theorem `MeasuresAsPromised`). The same
invariant carries it: `ProgressInv` tells a wait for the bus from an error of this measurement and
from one of the last, `DataInv` that the answer to the fourth command is still in the buffer when
ok is reported, and the frame of every action outside a measurement that the buffer is left alone.

*The display driver implements its specification* (`Ssd1306RefinementProofs`, theorem
`Refinement`). Initial states map to initial states, and every step to a step of `DisplayDriver`
or a stutter. The invariants it needs are `TypeOK` and `DriverInv`, with `SendLimitInv` added for
it: a send has at most three transfers, and has made one when it is done, also if setters
interfere.

*Framebuffer* (`FramebufferProofs`), for every width up to 255 and up to 31 rows, all blits and
all lengths of buffers. The inductive invariant is `TypeOK /\ DirtyCovers /\ CopyInv` (`Typed`,
`Covered`, `NoneLeftBehind`); `CopyInv` says where a copy stands and that nothing dirty lies
before it, and contains `AreaInv`: the corners of the rectangle are crossed by one at most, after
an empty blit. `Whole` and `ErrorForEmpty` follow from it. What a call copies is a recursive
function on the turns of the loop; the facts needed of it (every position visited is dirty, the
positions increase, no dirty segment is skipped) are proved by the least counterexample: if the
fact fails for some turn, take the least such one and look at the turn before. The induction
theorems of the library cannot be used, the existence of a least element can.

*Copies* (`FramebufferCopyProofs`). `TilesOnce`: if a piece of a copy begins at the dirty segment
that follows the `copied` ones before it, it consists of the next segments of the rectangle, row by
row, each once. That it begins there is the invariant `TileInv`, proved from `IInv` of
`FramebufferProofs` (theorem `AtTheNextTile`); the numbers of segments are quotients and
remainders by the width of the rectangle, which `QuotientUnique` settles. `Tiled` is
`Spec => CopyTiles`, for every width, every way to cut a copy into calls, and whatever is drawn
between one copy and the next.

*Blit* (`FramebufferBlitProofs`), for every size of framebuffer and object: `Typed`,
`VisibleDrawn`, `ReadOneTooMany`, `DrawnIsDirty`. The invariant says, row by row, what has been
drawn and read so far; the arithmetic of `y % 8` and `y \div 8` is in lemmas of its own.

*Graphics* (`GraphicsProofs`), for every width up to 128 and up to 8 rows. Every step of the system
is a step of the framebuffer or leaves it alone (`BufferStep`), so the invariant of
`FramebufferProofs` holds in the system; the `Same...` lemmas identify the two instances. With it
come `BufferInSystem` (what `Framebuffer` promises, inside the system), `LockAgrees` (`ShowInv`:
lock and show request agree, and what is handed over is clean) and `ShowServed`. `NothingForgotten`
is not inductive: that a send lands depends on what the driver has sent before. `DisplayInv` is the
strengthening, and `DisplayInvariant` its theorem:

* `FlagsInv`: flags, bus and what is in flight agree;
* `TaskInv`: the driver's operation fits the state of the graphics task, and until the display has
  been cleared the framebuffer is dirty from its first row;
* `InitOpInv`, `ModeInv`: after the initialisation the controller is in horizontal mode, or a
  transfer failed or left the framebuffer;
* `SendOpInv`: as far as a send has come, the controller has the window that belongs to the data,
  or a transfer failed, or the window was moved;
* `Accounted`: every stale segment is changed, on its way, about to be taken again, or lost. It is
  finer than `NothingForgotten`: of a transfer in flight only what has not been drawn to counts.

There is one lemma per action, and `Remembered` is the theorem.

`TypeCorrect` adds that the window the display driver holds is on the display, and its buffer in
the framebuffer or `Runaway`. It is proved from `HandedInv`: what the driver was handed has its
window, and the buffer came from `framebuffer_getDirtyAreaBuffer`. `CrossedLength` in
`FramebufferProofs` is the arithmetic: crossed rows are crossed by one (`AreaInv`), so the length is
0 or wraps to more than 65536 less a row. `HandedInside` says when that happens: the driver is
given a buffer that leaves the framebuffer only when no segment was drawn since the last one was
taken. Objects of width 0 are harmless here because whole rows are handed over.

*The graphics library implements its specification* (theorem `ShowsAsPromised`). The steps of the
application, of `graphics_run` and of the ends of transfers are mapped one by one; everything else
leaves the account alone (`DriverUnseen`). The mapping needs `GInv` and `DisplayInv`: that a
transfer that *lands* delivers what is due and one that does not had its window moved is
`SendOpInv`, and that a refused buffer stays due is `Refused`. `LibraryInv` adds what they do not
say: until the display has been cleared everything counts as drawn, so taking it unasked is
allowed.

*The driver inside the system* (`GraphicsDriverProofs`). `DriverInSystem`: every behaviour of
`GraphicsSystem` is, for the driver's variables, one of `OpenSpec`; the work is in showing that
the calls of `graphics_run` are legal ones (the window lies on the display, the buffer is one of
`Buffers`). Hence `DriverStates`, `DriverOperations` and `DriverPromise`: the invariants, the
action properties and the refinement of the display driver hold in the whole system, too.

*Only model-checked*: the liveness properties `InitCompletes`, `SendCompletes`, `MeasurementEnds`,
`CopyEnds`, `ShowEnds` and `Displayed`: liveness under fairness, and `ENABLED`, are beyond the
prover. Every other property of a passing run is stated by a theorem, without further conditions.

## 5. Not modelled

* The HAL itself, the scheduler's code, the UART: not in this repository.
* The lengths of transfers and the control byte in front of a command. The memory of the display
  is modelled as far as it agrees with the framebuffer or not; what a misplaced transfer leaves on
  it is not.
* The sensor's conversion time and its status register, which the driver does not read either; and
  measurements started while one runs, which `hmc5883l.h` (4-7) asks the application not to do.
* The DEBUG output of the HMC5883L driver; the empty `hmc_status_register_req`.
* The values of pixels; `framebuffer_getPixel` and the functions that only report the lock, the
  dirty flag or the error flag.
* The copying display together with the graphics task: `graphics_run` takes the dirty area by
  pointer, and nothing in this repository calls `framebuffer_copyDirtyArea`.
* In `GraphicsSystem`, clients of the display driver other than the graphics task, and
  applications that draw on a locked framebuffer.

## 6. How the project was built up, and what could follow

The order was: `I2cMaster`, `Ssd1306`, `Hmc5883l`, `Framebuffer` with their runs; the proofs of
the two drivers; `DisplayDriver` and the refinement; `FramebufferBlit`; `GraphicsSystem` and the
proofs of the graphics library; then the proofs about copies, the driver inside the system, and
`CompassDriver` and `GraphicsLibrary` with theirs. What could follow:

1. a module with both drivers and a round-robin scheduler, which would turn the argument for
   strong fairness in section 3 into a checked one;
2. clients of the compass driver that do not wait, and a sensor that needs time to measure.
