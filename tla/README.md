# EtherLab with external mode, in TLA+

EtherLab turns a Simulink model into a real-time program that drives EtherCAT
terminals. This repository is a version of it in which the program is served by
Simulink's external mode instead of PdServ. These modules model the run-time
half of it, `rtw/src`, together with the Start code that the block templates
(`rtw/blocks/**/*.tlc`) emit into the program, the blocks of `rtw/blocks` that keep a state between
cycles, and the way of a slave block from its configuration to that code. TLC checks
them on small instances. TLAPS proves, for every block diagram and configuration, every
safety property the runs check but one: of the registration, of the cycle with its
refinement, of the process image, of the program with its clock, of the signal blocks
and of the slave block. What remains to TLC alone is listed at the end of "Proofs".

## The system

| Component | Code | State it keeps | Operations | Models |
|---|---|---|---|---|
| Registration | `ecrt_support.c`, `EtherCAT.tlc`, `ec_slave3.tlc`, `domain_state.tlc`, `master_state.tlc` | slave chain, master list, domain lists, conversion lists, SDO requests | Start code of the blocks, `ecs_setup_master`, `ecs_get_domain_ptr`, `ecs_sdo_handler`, `ecs_start` | `EcrtSupport` |
| Cycle | `ecrt_support.c` | master lock, reference clock countdown, process images, datagrams of the library | `ecs_receive`, `ecs_send` | `EcsCyclic`, abstractly `EcsAtomic`, `EcsRefinement` |
| Process image | `ecrt_support.c` | place of every PDO element, bits of image and signals | `register_pdos`, the `ecs_write_*` and `ecs_read_*` conversions | `PdoImage` |
| Program | `hrt_main.c` | `running`, `task.err`, `keepRunning`, external mode, the deadline of the real-time thread | `main`, `init_application`, `run_task`, `rt_OneStepMain`, `intHandler` | `HrtMain`, with the clock `HrtTimed` |
| Slave block | `ec_slave3.c`, `ec_slave3.tlc` | configuration structure, tables in the generated code | parameter checks, settling of types and widths with Simulink, `mdlRTW`, table and code generation | `EcSlave3` |
| State blocks | `master_state.*`, `domain_state.*` | reset edge, outputs | reset of a master, states of devices and domains | Start code in `EcrtSupport`, outputs in `StateBlock` |
| Signal blocks | `event`, `message`, `findidx`, `world_time`, `propagate_width` | trigger counter, confirmation time | outputs, of `findidx` also the simulation | `EventBlock`, `MessageBlock`, `FindIdx` |
| RtIPC blocks | `RtIPC.tlc`, `rtipc_*` | what is forced | forcing by the host; else thin calls of librtipc | `ForceBlock` |
| Slave library | `EtherCATSlave.m` and the terminal classes | tables of PDO entries | `findPdoEntries`, `configureScale`, `configurePorts`, `configure` of each class | `SlaveLibrary`, four of the classes |
| Raise and catch | `raise_catch.c`, `raise.*` | list of raise ids | `etl_register_raise`, `raise_catch_start`, `abort_register` | not modelled |
| Lists, build, masks, help | `list.h`, `*.tmf.in`, cmake, `*.mdl`, html | none at run time | | not modelled |

How they interact. `main()` calls `init_application()`, which waits for the
host's start packet and runs `MdlStart`. `MdlStart` runs the Start code of every
block, in an order that the diagram decides, and last the trailer of
`EtherCAT.tlc`, which calls `ecs_start()`. From then on the real-time thread
calls `MdlOutputs` and `MdlUpdate`; in them the generated code calls
`ecs_receive(tid)` before and `ecs_send(tid)` behind the blocks of a task. In
this version one thread runs all tasks; the code for one thread per task (`#if
MT`, with a lock in every master) is still there and both builds are modelled.
`main()` exchanges data with the host meanwhile, and the threads tell each other
the end by plain variables.

The host may write a parameter of a block while the real-time thread is in the
block's code; nothing keeps them apart.

What is hard: the order of blocks and the failing of any library call while the
lists are built; two passes over the PDO entries that have to count alike; tasks
of different rates over one master, with frames that may get lost; bits of
several elements in one byte; model steps that take longer than their cycle;
parameters that change between two reads; two threads, a host and a signal that all may end
the program. `PROJECT.json` lists these hazards at their lines.

What makes each part correct: registration leaves every entry in exactly one
list, run by the task of its block, on a master whose fastest user serves it, and
no failed request of a master or domain reaches the cycle. The cycle never puts a half-converted image
on the bus nor shows a task inputs of two frames, sends what is queued and
synchronises clocks in the configured ratio. A conversion moves the bits of its
element and no other. The program serves every deadline once, terminates the model once,
after the last step, and whenever it has to. A block shows what its input or the
host asked for, once.

## Modules

* `EcrtSupport`: one action per block's Start code and per stage of `ecs_start()`.
  `pc` is the place in `MdlStart`; `slave_list`, `master_list` and `domain_list`
  are the C lists as sequences in list order (`domain_list` those of all masters
  together: a search in one master's list is a search for `d.master`); pointers
  are places in these sequences, `Null` is 0 and `Crash` stands for a NULL handle
  given to the library. `register_pdos()` is one action per direction: its loop
  can stop at any entry. `convert_list` holds what each place of a conversion
  array converts, `NoCopy` where the array is still as `calloc()` left it.
* `EcsCyclic`: `ecs_receive()` and `ecs_send()`, one action per statement that
  touches shared state, one word of a conversion at a time. The inner loops walk
  all domains of a master and pass over those of other tasks (`DomainSkip`). A
  thread runs a fixed program of calls. A process image has a half for inputs (`image`) and one for
  outputs (`outimage`). `dgram`, `wire` and `wc` are the external library: a domain
  is queued, sent with the next frame of its master, answered or lost. `since`
  is a history variable of the reference clock.
* `EcsAtomic`: what the two functions promise. What a call does at one master is
  one step, an image is one value, and there is no lock. Tasks may call in any
  order.
* `EcsRefinement`: the mapping under which `EcsCyclic` implements `EcsAtomic`. A
  call of `ecs_receive()` takes effect at a master when it has fetched the frame,
  one of `ecs_send()` when it has the lock. Between that step and `sem_post()` the
  abstract state is the one the call is going to reach.
* `PdoImage`: `register_pdos()`'s arithmetic and the conversion functions as
  permutations of bits. A bit is a token that says where it came from, so the
  final image shows what went where for all values at once.
* `HrtMain`: `main()` and the real-time thread statement by statement, a host that
  starts, pauses and stops, and SIGINT in either thread. `late` counts cycles
  begun after `running` was cleared.
* `HrtTimed` puts the clock into `HrtMain`. Every step but `Tick` is a step of
  `HrtMain`, with the deadline moved where `run_task()` moves it. Time is the
  distance `due` from the present to the deadline, so it needs no bound: only the
  long steps, which are bounded, let it fall behind. `phase` and `backlog` are history variables, the
  grid of sample times and the deadlines passed less the cycles begun.
* `EventBlock`, `ForceBlock`: an output code that reads a parameter of the host
  more than once, one action per read, and the host. `MessageBlock`, `StateBlock`:
  the output code in one action, with inputs chosen anew in each cycle. `FindIdx`:
  the generated code and the S-function as two folds over a vector.
* `Blocks`: a diagram with one of these blocks. Blocks share no state, so one at a
  time shows all they can do.
* `EcSlave3`: one action per method of the S-function `ec_slave3.c` and per
  function of `ec_slave3.tlc`, in the stages of `pc`: `sizes` (read and check the
  configuration), `settle` (Simulink offers types and widths for the inputs, in
  any order; here the block takes further work vectors), `rtw` (write the
  numbered records), `start`, `outputs`, `update` (generate code). `rtw.settings`
  is `SFcnParamSettings`; everything the generator knows it finds by a number in
  it. `PDO_Map` is what the generator keeps between blocks, and `StartOther` the
  Start code of another slave block, which may come before.
* `SlaveLibrary`: what the terminal classes make of a dialog, as operators: the
  three algorithms of `EtherCATSlave.m` and, built from them, a digital terminal
  (`ep2xxx`), analog outputs (`el4xxx`), analog inputs (`el30xx_1`) and both
  (`ep43xx_1`), with the tables of PDO entries the classes keep. Their results are
  configurations of `EcSlave3`, which the module extends.
* `MCEcrtSupport`, `MCEcsCyclic`, `MCHrtMain`, `MCHrtTimed`, `MCPdoImage`,
  `MCBlocks`, `MCEcSlave3`: instances for TLC.
* `EcrtSupport_proofs`, `EcrtLists_proofs`, `EcsRefinement_proofs` (the cycle and its
  refinement), `PdoImage_proofs`, `HrtTimed_proofs` (the program without and with its
  clock), `Blocks_proofs`, `EcSlave3_proofs`: theorems. `Induction`: what they need
  about loops.

Beside some operators stand wrong variants of them, introduced by "And wrong:".
They are used by no specification; putting one in the place of the operator
breaks the property listed with it under "mutants" in `PROJECT.json`.

External, modelled from its use in `src/`: the EtherCAT library (any request may
fail; it packs PDO entries one after another; frames), Simulink's external mode
(holds `main()` before the start packet and in a pause), the generated model
(may report an error after any step), the host, librtipc (a variable is forced if
it was given an address), pdserv (an event is set or not), the clock and the
scheduler (`HrtTimed`: bounds on what a step and a wake-up take).

## Runs

| Run | Instance | Shows |
|---|---|---|
| `ecrt` | 2 masters, 2 tasks, 1 domain number, all Domain State modes, 3 blocks, 1 SDO request | types; `fastest_tid` is the least task of all users (`FastestTask`); a failed request of a master or domain never reaches activation (`HandlesValid`) and is only used by the second pointer of a Domain State block (`NullHandleOnlySecond`); Domain State blocks that agree on the directions of a key watch the key's slaves (`UniformKeysMonitored`); an SDO request is that of the last slave block of its address, or NULL if the library refused that one (`SdoRequestsBound`) |
| `ecrt_lists` | 1 master, 2 domain numbers, 2 tasks, modes io and out, 3 blocks, up to 2 entries a direction | neither list reaches its end mark or the other list; every entry is converted by the task, domain and direction of its block and nothing else is; slaves of a key share the domain of a direction |
| `cyclic_mt` | 2 threads, 1 shared master, 3 domains, two of them of one task, 2 words, lossy bus | mutual exclusion (`MutualExclusion`); the calls implement the abstract cycle (`CallsAtomic`): images on the bus are whole and of one cycle, inputs are of one frame, an answer is processed once, the reference clock is counted once a frame; queued domains are sent and every task comes round again |
| `cyclic_st` | 1 thread, 2 tasks at rates 1:2, 2 masters, no loss | cadence with and without distributed clocks; each datagram is back when its task processes it |
| `hrt` | the program with its clock | the model is stepped only while it is started; the program never exits with a started model or a live real-time thread, and with open external mode only where the start failed (`CleanExit`); at most one cycle after the stop; no step after an error; SIGINT and model errors end the program unless the host holds it (`EndsWhenAsked`); no deadline is left out, moved or served twice (`KeepsPace`), a TOO LATE comes only after an OVERRUN and an OVERRUN only before a late cycle (`LateExplained`), and after long steps the thread catches up (`CatchesUp`) |
| `hrt_error` | the program | violated: a model error exits with 0 and without message |
| `pdo` | all 21 data types, 2 byte orders, 1 or 2 elements, gaps of 0, 3 and 8 bits; pairs of small entries | places, inputs, outputs of types as wide as their entry, padding |
| `blocks` | one block of a kind, `Wrap` 4, vectors up to 4 of 3 values | the host's events are shown one by one, or by a single shot that loses one only between its two reads; what is forced is what the host wants, but for one window in `rtipc_rx`; a message comes when its condition has lasted, and once; Find Index finds the same in simulation and program; a reset input resets once |
| `pdo_le` | 24, 40, 48 and 56 bit types | violated: these outputs are not little endian |
| `slave` | 2 sync managers; output ports with and without gain, offset and filter of each form, raw ports and none; input ports of 1 to 32 bits; every kind of refused port, SDO and SoE; terminals of the library with 2 to 16 channels, as vector and as ports, with every kind of scale; 1 other block | work vectors are not shared; every row of the PDO map names the configured element and points to a variable of its type; conversions of outputs and of inputs that are numbers use the parameters of their port, and Boolean inputs are converted from their own signal (`ConversionFaithful`); the parameters used are there; filter states are disjoint; single SDOs are as configured, arrays whole and sent by complete access, SoE settings have their index and numbers their contents, and clock times follow the help (`SettingsFaithful`); sync manager tables say what was configured, also where blocks share them; a terminal of the library is not refused, and its channels are those of the dialog, in order and each with its own gain, offset and filter (`TerminalMapped`) |
| `slave_bool` | the same | violated: a Boolean input is converted without its gain and offset |
| `slave_soe` | the same | violated: an SoE string loses its last character |

The code disagrees with its documentation in places no run is spent on.
`general.html:268` speaks of one domain for the slaves of a number, but its outputs
and inputs get a domain each, since `ecs_get_domain_ptr()` compares directions
first; `SameDirectionSameDomain` and `UniformKeysMonitored` say what holds. For the
same reason a Domain State block (`general.html:271`) can watch a domain without
slaves: a later block of the key with other directions widens the first domain
that fits it, and the slaves of the earlier block are in another. An SDO
that is an array loses its subindex: `GetSdoConfig()` always sends complete
access (-1), as `generic.html:144` has it ("ignored"), while the comment in
`ec_slave3.c:27-37` has a row with a subindex; `SettingsFaithful` sides with the
help. An SDO request that the library refuses is left NULL and the start goes on
(`ecrt_support.c:1088`), though every other refused request ends it.
`ec_slave3.c:173-175` gives inputs a gain, an offset and a full scale, and the
configuration of a Boolean input accepts them, but the generated code does not
apply them (`ec_slave3.tlc:322`): `ConversionFaithful` leaves these ports out and
the run `slave_bool` shows one. The example of an SDO string in `generic.html` is refused by
`get_slave_sdo()`. `general.html:223` demands that CycleTime0 + CycleTime1 is
positive, and `init_slave()` tests for it (`ecrt_support.c:1043`), but both are
unsigned in `ecrt_support.h:63`, so a negative sum is not refused. An event with
`SingleShot` is lost if the host writes between the two reads of `Trigger`, of
which the mask (`etherlab_lib.mdl:3353-3361`) says nothing; `rtipc_rx.tlc` has a
third read, after which a variable may stay forced until the next change. A
filtered output port as wide as the roll threshold stops the
code generation, because `WriteFilter()` uses a name `filter` that is not
defined (`ec_slave3.tlc:464`, action `UpdateFails`). An EP4374 with status
but not as vector has no configuration: `ep43xx_1.m:45` appends one port where
`configurePorts()` returns two, as `el30xx_1.m:50` allows for.

Bounds. `MaxBlocks`: the hazards of registration need two blocks that meet in a
list (two users of a master, two slaves of a domain) and a third that comes
between; a fourth repeats, but for the empty domain above, which needs four. `MaxPdo = 2` makes first, middle and last place
of a list differ. `Words = 2` is the least image that can be half converted and
`Values = 2` the least that shows two halves to differ. The third domain of
`cyclic_mt` gives a task two, so that a call is seen between them. `MaxLate = 3` is above
the one late cycle the property allows. In `hrt` a cycle takes 3 ticks (`Dt`), a step and a
wake-up 1 each (`StepTime`, `Latency`, at most `TooLate`), and two steps
(`MaxLong`) up to 5 (`LongStep`): long enough to lose more than a whole cycle, twice
in a row or with a rest between. `Wrap = 4` lets a counter wrap with up to three
events waiting; `Confirm = 2` has cycles before, at and behind the delay; vectors
of up to 4 (`MaxWidth`) of 3 values (`Elements`) have ties and both ends. `Levels`
are 0 to 2 in halves: a level, another, none, and what a truncation hides; two
outputs (`Width`) may differ. `Bits = 160` is the longest mapping of
`LayoutsAll` with a byte behind it. `MaxOthers = 1`: two blocks of a product share
tables or do not, and a third repeats one of the two cases. `ConfigsAll` has up
to two ports a direction, since the numbers of a port depend on what was
written before it, and signals up to one element wider than the port. The clock
settings cover each branch of the formulas, with a base that divides the time
evenly and one that leaves a remainder.
`RollThreshold` is Simulink's 5, above the width of any filtered port, and 2 at
which such ports are looped over. Terminals with inputs of the block have two
channels, or one port: Simulink may connect and settle each port on its own.

Fairness. `EcsCyclic`: weak fairness of each thread, strong fairness of taking a
lock, since a task sleeps between its cycles and releases the lock for longer
than another task needs to take it. `HrtTimed`: weak fairness of
`main()`, of the real-time thread and of time, and none of host or signals; the
liveness properties except a host that holds `main()` forever. That time does not
pass over a step that is due comes from `MayTake`: the real-time thread has a
real-time priority, and the assumption that step and latency fit into a cycle is
`TimeAssumption`, which the two long steps break for a while. `Blocks` and
`EcSlave3` have safety properties only. `EcrtSupport` and `PdoImage` are sequential programs that end;
they have safety properties only.

Deadlock is checked everywhere: a program that has ended stutters in an action
of its own (`Finished`, `Ended`).

## Proofs

All theorems are about the specifications TLC runs, for every value of the
constants that satisfies the named assumptions of the module. TLC evaluates the
assumptions on every run. Most say what a configuration is: that vectors and cell
arrays are sequences and counts are numbers (`ConfigsAssumption`, `OthersAssumption`,
`LayoutsAssumption`, `BlocksAssumption`, ...). These say more:

* `TaskAssumption` of `EcsCyclic`: a task is called by one thread (`EtherCAT.tlc`
  puts its calls in the task's own code).
* `ListAssumption` of `EcsCyclic`: a domain is in one list and a master's fastest task
  is the least of its users. The second is what `FastestTaskAlways` proves of the
  registration.
* `TimeAssumption` of `HrtTimed`: a step and a wake-up together fit into a sample time.
  Steps of any length are allowed besides (`LongStep`, `MaxLong`).
* `FitAssumption` of `PdoImage`: the image is as long as its mapping. The library
  allocates it so.
* `SettingsAssumption` of `EcSlave3`: sample times are not negative and neither is a
  configured cycle time, as the help has it.
* `TypesAssumption` of `EcSlave3`: Simulink offers a port no type named like the mark
  of a type that is not settled yet.
* `AnswersInTimeAlways` has hypotheses of its own, below.

Loops. A recursive definition over data is a recursive function of the number of
turns here, and `Induction` has what a proof about it needs without an induction
principle that takes an operator: a set of numbers that is not empty has a least
element (`LeastElement`), so a set that holds 0 and with each turn the next holds all
turns (`Turns`), and the function of the values of a loop exists (`Iterated`). An
induction hypothesis is written as a set of turn numbers.

* `EcrtSupport_proofs`. The invariant is `TypeOK /\ Indexed`: the loops stand on
  slaves of the chain, `init_slave()`'s `master` and `domain` are in the lists
  when they are used, and every domain of a master that was activated has its
  array. Types alone are not inductive, since `register_pdos()` and the fill
  loops index the lists by these locals. `HandlesValid` speaks of the started program
  only; `HandlesInv` says that all handles are good at every moment before, but
  for one: between the two pointers of a Domain State block a failed request may
  already stand in the lists, and then the last pointer is `Null`, which ends
  `MdlStart` in the next step. `FastestTask` needs three facts together
  (`Serving`): no master is listed twice, or the second entry would hide users of
  the first; the task of each is the least of its users or `NoTid`; and a master
  that is not listed has no users, so that its first user sets the task. The
  users are a table from master numbers to tasks, and the proof is that
  `get_master()` adds one user to the table and every other step none.
* `EcrtLists_proofs` has the other six invariants of the registration, along four
  inductive invariants.
  * `BoundInv`: the slave an SDO request was last asked of (`asked`, a history
    variable in its record) is the last of its address that was taken up, or none
    while there is none, and the request is bound to that slave or, refused, NULL.
  * `MapInv`: the entries of a slave are in the *first* domain of the list that
    serves its master, domain number and task in their direction. A domain that
    serves goes on serving (`DomainsKept`), and new ones join at the end, so the
    first stays the first. The one step that could spoil this is `get_domain()`
    widening an earlier domain; `init_slave()` asks for one direction at a time,
    and then the domain it finds has that direction already (`Whole`).
    `SameDirectionSameDomain` is that two slaves of a key have the same first.
  * `PtrInv`: while all Domain State blocks of a key agree on one domain or two,
    each of them watches the first domain in its directions, and every domain is
    owed to a block that agrees (`Owned`). Without the agreement it is false, and
    so is the property: widening changes which domain is first.
  * `CountInv`: for every domain there are two functions that sum up its entries,
    slave by slave, in either direction. The registration pass counts to their end,
    `ecs_start()` sizes the array by it, and the fill pass counts along them again;
    what it has filled is where the sums say (`ListHolds`, `RxEntries`,
    `TxEntries`). The sums are existentially quantified: a step gives the new ones
    by shifting the old ones behind the slave at hand (`AddShare`), so that no
    induction over the slaves is needed. `ConvertListsBounded` follows from the
    sums being monotone, and `PdosConverted` together with `MapInv`.
* `EcsRefinement_proofs`, the cycle. The invariant is
  `TypeOK /\ RefclkCadence /\ LockHeld`.
  `MutualExclusion` is not inductive: it does not say who may release. `LockHeld`
  says that a thread is between wait and post of a master exactly if the
  semaphore is its own; with it each action is a short argument. In a build
  without lock the assumption that there is one thread takes its place.
  `RefclkCadence` is inductive with the types.
* The refinement, in the same module: `CallsAtomic`, every behaviour of `EcsCyclic`
  is one of `EcsAtomic` under the mapping of `EcsRefinement`. Its invariant adds where the
  loop variables of a thread can stand (`Control`) and what its conversion loop has
  copied (`Prefix`). The mapping sees a domain through the calls it is part of, and
  by mutual exclusion that is one thread at most (`Sole`, `Views`). Each of the
  ten kinds of step then falls in one of two classes. Steps with an effect
  (`Effect`: a frame is fetched, or the lock is taken by a send) map to `Receive` or
  `Send` of the abstract cycle; all others leave every domain and every clock as
  they look (`SameAt`, `ClockSame`) and map to stuttering, or, when a call is over
  and the blocks compute, to `Compute`.
  `AnswersInTime` is a statement about a program: whoever calls `ecs_receive()` twice
  between two sends of the fastest task finds no answer. `AnswersInTimeAlways`
  therefore takes the order of the calls as a hypothesis, `Timely`: going round the
  program, the datagram of each task is answered when the task receives. It is a
  condition on the constants, `Program` and `Master`, which knows nothing of
  threads, loops, lists or images; TLC checks that the program of `cyclic_st` has
  it. The other hypotheses are one thread and no loss; with several threads, or on a
  bus that loses frames, a task can find its answer missing. The proof is that the calls do to each datagram what
  `Timely` counts with (`Expected`), although they walk over masters and domains
  and the frames carry the domains of several tasks.
* `PdoImage_proofs`. The invariant says of every moment of the two loops: what is
  registered lies where the mapping puts it; what a conversion reads has not been
  written by one (`Sources`); what is converted has its bits and still has them
  (`Sent`, `Got`). The last is the reason for all the arithmetic: bits of different
  elements are at different places (`OwnBits`), although they may be bits of one
  byte, and each conversion writes within its own. The properties
  name what the conversions do not support: outputs of 24, 40, 48 and 56 bits, which
  are stored in another order (`SameWidth`; the run `pdo_le`), of which the last also
  writes the byte behind its entry (the condition of `PaddingKept`), and elements of
  less than a byte across a byte boundary (`InOneByte`).
* `HrtTimed_proofs`, without the clock. The invariant adds where each thread can be
  while the other is at a given place (`Apart`) and what is true of the model then; the safety
  properties `ModelAlive`, `CleanExit`, `OneMoreCycle` and `NoStepAfterError`
  follow. That external mode is shut at the end needs one more part (`ExtInv`): from
  its shutdown on it stays shut, and `main()` comes behind it only through the
  shutdown or with an error of the start, which makes the exit code 1.
* With the clock, in the same module. `TimedImplements`: a step of `HrtTimed` is a
  step of `HrtMain` or leaves its variables alone, so the theorems without the clock hold with
  it. `KeepsPace` needs that grid and deadline move together (`OnGrid`) and that
  nothing moves before `run_task()` reads the clock (`NotStarted`). `LateExplained`
  needs the reason for a late wake-up: after a step that kept its deadline the
  thread is late by its wait for the processor alone (`Punctual`), which is below
  `TooLate`, and behind an OVERRUN a deadline is waiting (`Waiting`).
* `Blocks_proofs`. `Blocks` runs the specification of one block while the variables
  of the others stand still, so the invariant is the conjunction of one for each.
  Event: a chain owes as many pulses as the host is ahead modulo the wrap of its
  counter; a single shot owes at least that many. Forcing: at each place of the
  output code, what is forced is the block's copy, unless the host wrote in between.
  Message: without a message the delay is the time the condition has lasted. State
  block: the remembered level is the input rounded down. Find Index: after each turn
  of its loop, the value is the extreme of the elements so far, the index its first
  or last place and the count the number of its places; the test that the generated
  code leaves out is the one the comparison implies.
* `EcSlave3_proofs`. The invariant follows the block through its stages.
  * `SizesInv`: work vectors are numbered one by one, first as the ports are read and
    then as Simulink settles types, in any order, and each number has one port
    (`Counting`, in every state); the counts of parameters and filter states are the
    sums over the ports; a settled input has a work vector exactly if its signal's type
    is not the PDO's or its value is converted.
  * `LaterInv`: each stage has written what the code writes, from what the stages
    before left, which nobody has changed since. `RecordsInv` is the part of it that
    carries the properties: every number that `mdlRTW()` notes leads to the record it
    was noted for, since records are only appended (`WriteListed`, `WritePort`) and
    the counter is the length of the list.
  * `TablesInv`: a block that was given a table finds tables there that are `Same` as
    its own; and tables that are the same make the same C arrays.
  * `ValidInv`, that the configuration was accepted, is what `ParametersThere` needs
    of the widths of parameters and `SettingsFaithful` of SDOs and clock settings.
  * `OriginInv`: the ports in the order of the configuration, those without PDOs left
    out, tell of the entries they were read from. Settling changes a port's type and
    work vector and nothing it tells.

  The properties then are about sums and flattened lists, in lemmas of their own: a
  flattened list is cut at the sums of the lengths, so that the pointers of the
  generated arrays unfold what `mdlRTW()` flattened (`TablesFaithful`); the filter
  states of a port lie between two successive sums (`FilterStatesOwn`); a row of the
  map is found through the port it is cut from (`BuffersTyped`, `MapFaithful`).
  `SettingsFaithful` states a clock time by its ratio to the base up to the remainder
  of the division, since the generator divides integers.

Only model-checked:

* the liveness properties (`QueuedIsSent`, `CyclesForever`, `EndsWhenAsked`,
  `CatchesUp`), which are out of the prover's reach;
* `TerminalMapped` of `SlaveLibrary`. It is a statement about four classes with the
  tables they carry, each built by sorting and selecting from literal cell arrays;
  there is no constant to quantify over, and the run goes through the terminals with
  2 to 16 channels and all options.

`TypeOK` of `EcsCyclic` and `HrtMain` is proved and is in no run.

The properties except some outcomes, which the code does not exclude:
`FastestTask` a master named by Master State blocks only, which nobody serves;
`CleanExit` and `EndsWhenAsked` the undefined join of a thread that
`pthread_create()` did not create (outcome `crashed`); `EndsWhenAsked` a host that
pauses `main()` forever; `ResetOnRelease` a reset level with a fraction, which
resets the master in every cycle.

## Not modelled

Concurrent calls of the external mode library by `main()` and the real-time thread,
which hold no lock (`hrt_main.c:363`): what they do is decided in the library.

Memory exhaustion in `malloc()` and `calloc()`; big-endian hosts; the wording of
errors; scheduling class and memory locking of `hrt_main.c`; slave state machines
beyond "answered or lost".

Of the slave block: sample times (an inherited one, -1, too), the saturation and
the values of converted signals, the refusal of a `full_scale` that is zero or a
`big_endian` that is not a number (`ec_slave3.c:1788`, `1804`), the release of memory, a block without any
configuration structure, and its simulation in Simulink, which does nothing.

`raise_catch.c` is kernel code of an older target: the template makefile of this
version does not build it, so no program contains it. `world_time` and
`propagate_width` have no state: one copies a clock, the other a width. Of RtIPC
start, receive, send and exit are single calls of librtipc. The S-functions of the
signal, state and RtIPC blocks only declare ports and parameters, but for the
simulation of `findidx`. The other classes of the slave library are tables and
calls of the same kind, some with ports written out by hand; what else they do
shows, hides or checks fields of a dialog. Lists (`list.h`) are sequences
in the models; build files, masks and help have no behaviour.

## Plan

1. `EcrtSupport`, `EcsCyclic`, `PdoImage`, `HrtMain` with their runs and the type
   and lock proofs: done.
2. `EcSlave3` with its runs, including sync managers and clock times: done.
3. `Blocks` with event, message, forcing, Find Index and master reset: done.
4. `HrtTimed`, the deadlines of `run_task()`: done.
5. `EcsAtomic` and `EcsRefinement`, the abstract cycle: done.
6. `SlaveLibrary` with four classes: done. Left: classes that write their ports by
   hand (`el5101.m`, `el3356.m`).
7. Proofs: the registration, the cycle with its refinement and the order of calls, the
   process image, the program with its clock, the signal blocks and the slave block:
   done. Left: `findPdoEntries()` and `configurePorts()` of the library for any table of
   entries, in place of the tables of the four classes.
