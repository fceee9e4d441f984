# A verification project for the Android VM engine

The engine runs an unrooted Android userland inside an app. One thread of the
app traces the guest's processes with `ptrace`, rewrites the paths of their
system calls so that they stay in a directory (the *rootfs*), and answers some
calls itself. Other threads serve sockets and pipes in the rootfs that stand
for devices and daemons of a real system.

This directory has TLA+ models of that code, TLC configurations that check
them on small instances, and proofs that TLAPS checks. `PROJECT.json` maps each
definition to the lines of `src/` it is translated from.

Contents: 1 the system; 2 the modules and how they correspond to the code;
3 the runs; 4 the proofs; 5 where the code does something else than the
repository says; 6 what is not modelled; 7 plan.

## 1 The system

### 1.1 Components

Paths are below `src/engine/` unless they say otherwise.

| Component | State | Operations | Talks to | Hard part | Correct when |
|---|---|---|---|---|---|
| **Tracer loop** `core/syscall_dispatcher.cpp` `spawn_guest`, `run_loop` | locals of one thread; the guest's tasks are the kernel's | fork and trace the guest; wait, classify the stop, register children, dispatch calls, resume | kernel (`ptrace`, `waitpid`), process tree, path resolver, dispatcher | tasks stop, fork and die in any order; `nativeStopVM` on another thread | every traced task is known; none hangs in a stop; the loop ends exactly when the guest is over |
| **Process tree** `core/process_tree.cpp` | map pid → process, a mutex | add, remove, count, `kill_all` | tracer thread, UI thread | `kill_all` clears the map while the loop adds to it | it holds every live task, or will |
| **Path resolver** `core/path_resolver.cpp` | rootfs path; map pid → directory, a mutex | normalise, resolve, get/set directory, remove | dispatcher, tracer loop | resolved paths are resolved again; the map shadows what the kernel knows | absolute paths stay inside, but for the rootfs's links; the map agrees with the kernel |
| **Syscall dispatcher** `core/syscall_dispatcher.cpp` `dispatch`, `handle_*` | registers and memory of a stopped task | one handler per call | memory manager, path resolver, binder, framebuffer | runs at entry *and* exit of each call, differently on the two architectures; the host's kernel follows the rootfs's links | the guest is served as by a kernel of its own |
| **Memory manager** `core/memory_manager.cpp` | none | read/write bytes and strings of another process | kernel (`process_vm_*`, `ptrace`) | half-done transfers, word and chunk boundaries, pages that cannot be read or written | what is read is the guest's string; a write changes those bytes only |
| **Property service** `ipc/property_service.cpp` | properties and a mutex, socket, flag, thread | start, server loop, handle client, set, stop | guest clients by a socket; UI thread | `stop` against a thread in `accept` or `read`; the guest inherits the listening socket | clients get answers; stop ends the thread |
| **DNS proxy** `ipc/dns_proxy.cpp` | socket, flag, thread | as the property service | as the property service | the same | the same |
| **Guest init** `guest/guest_init_orchestrator.cpp` | list of daemons with pids, a flag | start daemons, restart dead ones, terminate all on a signal | kernel; the daemons | deaths between any two steps; signals before `execv`; failed forks | each daemon runs once, is restarted, and is gone at the end |
| **Audio** `audio/virtual_audio.cpp` | FIFO, stream, flag, thread | init, loop, write, stop | guest by a FIFO, AAudio | stop closes the stream before it joins the thread | the thread ends, and after the close uses FIFO and stream once at most |
| **Input** `input/virtual_input.cpp` | FIFO and a mutex | touch, key, init, close | UI thread, guest by a FIFO | a full FIFO loses events in the middle of a gesture | what the guest sees is where the finger was |
| **Binder**, **framebuffer** `ipc/virtual_binder.cpp`, `display/virtual_framebuffer.cpp` | sets of descriptors (pid, fd) | register, forget, ioctl | dispatcher | nothing registers a descriptor | they outlive the tracer that uses them |
| **Gralloc**, **EGL** `display/*.cpp` | frame buffer, GL context | post, read, render | – | none now: nothing posts frames | it outlives the framebuffer |
| **Display** `display/virtual_display.cpp` | the window, a mutex | take a window, give it back | UI thread | windows of two views come and go in any order | it holds the window on the screen, and one reference to it |
| **Lifecycle** `jni_bridge.cpp`, `main_cli.cpp` | eleven global pointers, the VM thread | start, stop, surface, touch | all of the above | order of stop and delete; a stop while the guest is being forked | nothing is used after its delete; after stop nothing is left |
| **App** `src/app/src/main/java/...` | per activity a flag, a view, buttons; a foreground service | create, destroy, start, stop, surface callbacks, touches | lifecycle, ROM manager | two instances of the activity; death of the process; a stop that hangs hangs the app | an engine that runs has somebody who will stop it; what the user is told is so |
| **ROM manager** `ROMManager.java` | files on disk | download, install, `isROMInstalled` | app, a thread per installation, `tar` | "installed" is two files' existence during the unpacking; two installations at once; deaths | a reported success means a complete ROM |
| **Rootfs tools** `setup_rom.sh`, `patch_rootfs.py`, `build_cli.sh` | files | prepare a rootfs | – | sequential | – |

The files directly in `engine/` besides `jni_bridge.cpp` and `main_cli.cpp` are
an earlier version that no build uses.

### 1.2 Interactions

Three kinds of actors share state:

* the **tracer thread** (`spawn_guest`, then `run_loop`; inside it `dispatch`
  and its handlers). It alone calls `ptrace`. It shares the process tree with
  the UI thread;
* the **UI thread**, which creates everything (`nativeStartVM`), passes touches
  on, and in `nativeStopVM` calls `kill_all`, stops the property service, the
  DNS proxy and the audio one after the other, each with a `join`, joins the
  tracer thread, and deletes everything;
* one **worker thread** each of the property service, the DNS proxy and audio.

The **guest** is an actor of its own: its tasks run, fork and die between any
two steps of the tracer, and connect to the sockets. Inside the guest, its init
supervises daemons; there it is one process among others.

### 1.3 Hazards

`PROJECT.json` lists them, each at the line where it bites and with the
properties that would catch it. In short:

* *the tracer*: the parent's announcement and the child's first stop arrive in
  either order; `kill_all` between the fetching of an announcement and
  `add_process`; a parent killed between the two; a directory inherited late; a
  stop that is not resumed; an emptied tree while tasks live;
* *the dispatcher*: it cannot tell an entry from an exit, so each handler runs
  twice on one call; what a register holds the second time depends on the
  architecture; paths are resolved from their own results; the host's kernel
  follows the rootfs's symbolic links after the rewriting; calls without a
  handler are not rewritten;
* *memory*: chunk ends, word ends, half-done transfers;
* *the services*: a plain `int` descriptor that one thread closes while another
  is about to `accept` on it; blocking calls that a close does not interrupt;
  a listening socket that the guest inherits;
* *guest init*: deaths, failed forks and signals in any order;
* *audio and lifecycle*: descriptors and objects that one thread closes or
  deletes while another uses them; a stop that comes before the guest is there;
* *input*: a full FIFO in the middle of a gesture;
* *app*: a second instance of the activity, callbacks of two instances in
  either order, a process that dies while it unpacks, two installations into
  one directory, an exit code that the tracer's `waitpid(-1)` took,
  a button that the end of an installation relabels.

## 2 The modules

| Module | Models | Uses |
|---|---|---|
| `TraceLoop` | tracer loop, process tree, the directory table of all tasks; external: the kernel's `ptrace`, `wait`, `fork`, `chdir`, `exit` | |
| `TraceLoopProofs` | theorems about it | `TraceLoop` |
| `GuestPaths` | the string functions of the path resolver; external: how a kernel follows links | |
| `VirtualKernel` | *abstract*: the kernel the guest is promised | `GuestPaths` |
| `SyscallDispatch` | `dispatch` and its handlers on one task; external: what the kernel does with the call | `GuestPaths`, `VirtualKernel` by refinement |
| `DispatchProofs` | theorems about the three above | `SyscallDispatch` |
| `MCSyscallDispatch` | its paths, directories and links for TLC | `SyscallDispatch` |
| `GuestMemory` | memory manager; external: pages | |
| `MemoryProofs` | theorems about it | `GuestMemory` |
| `SocketService` | property service and DNS proxy; external: listening socket, clients, processes that inherit the socket | |
| `SocketProofs` | theorems about it | `SocketService` |
| `GuestInit`, `MCGuestInit` | guest init; external: its children | |
| `GuestInitProofs` | theorems about it | `GuestInit` |
| `ServiceThread` | *abstract*: a service with a thread of its own | implemented by `SocketService` |
| `TracerThread` | *abstract*: the tracer thread and the guest | implemented by `TraceLoop` |
| `VirtualAudio` | audio | |
| `EngineLifecycle` | `nativeStartVM`, `nativeStopVM`, `main`: the engine as a whole | two `ServiceThread`, `VirtualAudio`, `TracerThread` |
| `EngineProofs` | theorems about it | `EngineLifecycle` |
| `VirtualInput` | `onTouchEvent`, `send_touch`, the device; external: the guest's reader | |
| `InputProofs` | theorems about it | `VirtualInput` |
| `RomManager` | both installations, `isROMInstalled`; external: `tar`, the network | |
| `App` | activity with its button, view, service, the display's window | extends `RomManager` |
| `AppProofs` | theorems about it and `RomManager` | `App` |

### 2.1 TraceLoop

`pc` is where the tracer thread is, and `cur`, `status`, `new_pid` are
`current_pid`, the kind of stop in `status`, and `new_pid` of `run_loop`. Each
action is the code between two system calls or locked methods, because the
guest and `kill_all` can come between any two of those:

| Code | Action |
|---|---|
| `fork()`; `waitpid(pid, ...)`; `PTRACE_SETOPTIONS`; `add_process` | `GuestFork`, `SpawnWait`, `SpawnOptions`, `SpawnAdd` |
| `while (active_process_count() > 0)` | `Check` |
| `waitpid(-1, ..., __WALL)` and the branch on its result | `Wait` (`WaitStop`, `WaitDeath`, `WaitNone`) |
| both `remove_process` | `Remove` |
| `PTRACE_GETEVENTMSG`; or `dispatch`; or nothing | `HandleStop` (`ReadEvent`, `Dispatch`, `OtherStop`) |
| `add_process`, `set_cwd(get_cwd)` | `Register` |
| the last `PTRACE_SYSCALL` | `Resume` |
| `ProcessTree::kill_all` | `KillAll` |

The two calls in `Remove` and the three in `Register` each take a lock of their
own. They are one action because only `kill_all` on another thread could be
seen between them, it touches one of the two maps, and it may come before or
after.

The kernel's side is `task` (where each task is, with the kind of stop),
`reported` (which stops a `waitpid` has returned already), `call`, `group`,
`eventmsg`, `kcwd`. Two details matter to the loop. A traced child begins with
a stop of its own, which is reported before or after its parent's
announcement. And a task that is killed leaves any stop it is in; it may halt
once more, because of `PTRACE_O_TRACEEXIT`, and a `PTRACE_GETEVENTMSG` meant
for the announcement then returns an exit status. That number, taken for a pid,
is `StrayPid`.

Directories are model values here: what `chdir` is given is what the table
gets. That the spelling works out is `SyscallDispatch`'s matter. `call` of a
chdir is its directory. At the *exit* of a chdir `dispatch` sets the table once
more on x86_64, where the path is still in its register; on aarch64 that
register has the result.

`lost`, `early`, `drifted` are history: they name the cases in which an
invariant cannot hold, so that it can be stated for all the others. `lost` are
children whose parent was killed with the announcement unread. `drifted` are
the tasks whose table entry may differ from the kernel's directory: the guest
before its first chdir (the kernel has the app's directory, the table `/`), a
chdir that failed, a chdir by another thread of the group, one that was
dispatched before the task was registered (`early`), and the children of such
tasks.

`MayInterrupt`: `spawn_guest`'s `waitpid` has no `EINTR` loop, and the runtime
the thread runs in (ART) uses signals, so that it may return before the guest
has stopped. It is a constant, because without it the guest never starts
(section 5), and with it everything behind it is reachable.

### 2.2 SyscallDispatch, GuestPaths and VirtualKernel

A path is a flag (absolute) and a sequence of segments. `normalize_path` goes
through them with a recursive function, as the code's loop does, and `resolve`
is a choice between four results. Characters matter in one place: `resolve` uses
`rfind(prefix, 0)`, so that `/data/rx` counts as inside `/data/r`. The constant
`Extends` has the pairs of names for which that happens.

`SyscallDispatch` follows one task through one call at a time: `Issue` (the
guest), `EntryStop` (`dispatch`), `Execute` (the kernel), `ExitStop`
(`dispatch` again). Each handler is an operator of its name. The four `handle_*at`
handlers, which are the same code, are one; so are the handlers that need a
registered descriptor, which nothing registers. `cancel_syscall` is where the
architectures differ: the kernel's own call number (`scno`) is the register the
debugger writes only on x86_64. An `execve` may fail, and then the register
still holds the path when the exit is dispatched.

Calls that have no handler go to the host's kernel as the guest wrote them.
Those with a path are `mkdirat`, `unlinkat`, `renameat`, `openat2`, `fchmodat`
and the like, and on x86_64 `open`, `stat`, `access` and `readlink` besides.
`mkdirat` stands for all of them (`Unrewritten`). It leaves a path in the buffer
as it is, and no property says where it leads.

The rootfs has symbolic links: `patch_rootfs.py` makes some, and the ROM comes
with others. `Links` has their texts by the host's names, and `HostPath` is how
the host's kernel walks through them: segment by segment, a relative text from
the link's own directory, an absolute one from the *host's* root. In
`VirtualKernel` an absolute text begins at the rootfs, as for a chrooted
process. Three simplifications: the host's own links are left out, so that a
name of the host stands for where it leads; a chain of links stands as one link
to its end (`LinkAssumption`); the last link is always followed, also where
`readlinkat` or `O_NOFOLLOW` would not.

`VirtualKernel` is what the guest is promised: its root is the rootfs,
`/sdcard/Download` is the host's, it is root, and each call is one step. The
refinement `ServedAsPromised` reads the virtual directory off the real one and
the answer off the last result. It says that rewriting, the host's call and the
second dispatch add up to that step.

The refinement is checked for the paths the engine means to keep its promise
for (`MCPathsOf`). The following are outside it; each is something the code does:

* a relative `chdir`: the table is set first and the path then resolved from
  the new directory, so `chdir("a")` goes to `R/a/a`;
* a relative path after a chdir that failed, for the same reason;
* relative paths of the `*at` calls, which are not rewritten and until the
  first `chdir` are the host's;
* a relative `..` path of `execve`;
* `getcwd` on x86_64 after a chdir, which at the exit is told the directory by
  its host name;
* `execveat`, whose path is in the second argument, and the first is rewritten;
* a path the guest itself spells with the rootfs in front, or that has the
  rootfs or the shared folder as a prefix of characters only;
* paths below the shared folder (section 5);
* links with an absolute text (section 5), or with a relative one that climbs
  out of the rootfs: the host's kernel leaves the rootfs there;
* a `..` behind a link, which the resolver takes away together with the link
  before the kernel has seen either;
* a chdir through a link, after which the table has the name that was given and
  not the directory's own, so that relative paths and `getcwd` go by that name;
* calls without a handler;
* on aarch64 every cancelled call (section 5), and a `prctl` whose result is 4
  or 38, which the exit dispatch takes for the option and overwrites;
* `connect` with an address of exactly the path's length, which is left too
  short for the longer path, or with a path that becomes longer than 107
  characters, which is cut;
* what the guest has in memory behind a path: the longer one is written over it.
  `Rewrite` is of a buffer with room.

`dispatch_confines` allows most of these, absolute and climbing links and calls
without a handler among them, and checks a weaker promise: an absolute path of
a rewritten call, and any path of a chdir, leads into the rootfs, the shared
folder, or to what a link of the rootfs leads to. It cannot say more, for behind
an absolute link the guest is where the link's text leads on the host.

### 2.3 GuestMemory

One handler's use of the memory manager: `read_string` chunk by chunk
(`ReadChunk`), then `write_bytes` as one `process_vm_writev` (`Write`) that may
write a part, then words (`WriteWord`). Each byte is a token that names its
origin, so that a misplaced one is seen. Pages have rights; `ptrace` may write
to a private read-only page, `process_vm_writev` may not.

### 2.4 SocketService

`opc` is the owner (UI thread) in `start` or `stop`, `wpc` the worker in
`server_loop` and `handle_client`, each with a step per access to what they
share: the flag, `server_fd`, the socket. A close of a socket another thread
is accepting on neither wakes that thread nor frees the socket.

The descriptor has no `SOCK_CLOEXEC`, and `spawn_guest` forks while it is open
(as does `system`): `Fork` gives a copy away (`inherited`). A copy keeps the
socket, and the queue of clients in it, after `stop` has closed the engine's
own. Nobody will accept them: `StopJoin` moves them to `orphans`, where they
stay until the processes with the copies end (`OldCopiesGone`). They cannot be
more, as the path is unlinked.

Each start is of a new object, whose property map has the defaults again:
`StopJoin` clears `property` and `answers`. No code reads the map.

`Reply` to a client that has hung up raises SIGPIPE. The engine does not
ignore it, so the command line program ends of it; in the app the runtime keeps the
signal away. The end of the process is not modelled here. The property
service is `Setting = {"set"}`; with `Setting = {}` and every kind answered it
is the DNS proxy.

### 2.5 GuestInit

`pc` walks through `main`: `Start`, `Check`, `Wait`, `Restart`, `Shutdown`. A
child is *forked* until its `execv`; before that it has its parent's signal
handler, and a `SIGTERM` is lost on it (`missed`). Afterwards it is taken to die
of the signal: that a daemon handles it, or that a tracer drops it (section 5),
is left out. Pauses are, too.

### 2.6 ServiceThread, TracerThread and VirtualAudio

The first two say what the lifecycle needs to know of a component and leave out
the rest. Each is shown to be implemented by its detailed module (`ThreadSpec`
in `SocketService` and in `TraceLoop`), so that the lifecycle is checked with
four threads and few states instead of with the product of all details.

`ServiceThread`: the owner is idle, starting, up or stopping; the worker is
busy, waiting for a client (in `accept` or in `read`), leaving or gone. `Stop`
may find the worker between its look at the flag and its `accept`, so it may
leave at once or wait once more.

`TracerThread`: `entry`, `spawning` (between `fork` and `add_process`),
`looping`, `done`, and `failed` when `fork` does. `tracked` is that the tree has
an entry, `alive` that a traced task lives. `KillAll` empties the tree and kills
what is in it, which may or may not be all there is.

`VirtualAudio` is modelled in full. `opc` is the owner, `wpc` the thread.
`audio_fifo_fd` and `aaudio_stream` are plain members: each read and write of
them is a step. `late_reads` and `late_writes` count uses of what `stop` has
closed. A late read may find the number of a file that was opened meanwhile; that
such a file makes the reader wait is left out.

### 2.7 EngineLifecycle

A program is the sequence of its steps: `StartApp`, `StopApp` for the app,
`StopCli` and `Unwind` (the destructors of `main`, in reverse order) for the
command line. `todo` is what remains of the operation under way; each step is
an action (`NewProp`, `StopDns`, `JoinThread`, `DeleteObject`, ...) that moves
the part it is about by that part's own action (`Prop!Begin`, `Audio!StopFlag`,
`Tracer!KillAll`, ...). Between any two of them the other threads, the guest and
its clients move. Subsystems without a thread are names in `objects`.

`escaped` is history: `kill_all` came before the guest was in the tree, or
missed a task. A start while the engine is up is not possible here; `App` says
when it is.

### 2.8 VirtualInput

`todo` is what remains of the frame that `send_touch` writes, `fifo` the pipe;
`slot` and `view` are the guest's side of Linux' multi-touch protocol (state
since and at the last `SYN_REPORT`). `known` and `whole` are history: whether
the guest can know where the finger is. The pointer moves on a diagonal so
that a pair of coordinates of two events is recognised. The engine may be stopped and
started in the middle of a gesture; the new guest then sees the rest of it.
`close_device` empties the FIFO, as the last close does: that no process of the
guest which has inherited the descriptor is left is assumed.

### 2.9 RomManager and App

The archive is a sequence of entries; a file of the rootfs is absent, torn,
whole, or being written by some `tar`. A thread of an installation connects,
downloads, unpacks, waits and tells (`job`). `isROMInstalled` looks for the two
`Markers`. The files outlive the process, threads do not (`RomsDie`).

`App` has up to two instances of the activity (`state`), each with its own
`mIsRunning` and its own button. `offersStop` are those whose button says "Stop
Virtual Machine". A click goes by `mIsRunning` and sets the text, but so does
`onSuccess` of an installation, which writes "Start Android 15" on the button of
the instance that asked for it (`asker`) whether or not the machine runs:
`relabelled` are the buttons for which it did. The text of the status line is
left out. The system calls `onDestroy` some time after the user has finished an
instance, and `surfaceDestroyed` before or after it. A second one comes from the
notification (its intent is not the launcher's) or from a launch in that time.
The engine is one variable here: what its start and stop do is
`EngineLifecycle`'s matter. `waitFor` is the moment at which the exit of `tar`
is collected, by the thread or by the tracer of an engine that runs at that
moment; what it tells comes later. `forgotten` counts engines that a second
start has overwritten, `sticky` remembers that the system restarted the service
by itself. `CHOOSE` in `onCreate` and `Begin` takes one idle instance or thread
of several alike ones, which only reduces symmetric states.

## 3 The runs

`CHECK_DEADLOCK FALSE` is set where the program really ends or blocks: the
tracer loop ends, or waits for a guest that does nothing; the services wait for
clients; the orchestrator exits. Elsewhere TLC checks for deadlock.

| Run | Instance | Shows |
|---|---|---|
| `loop` | x86_64, 3 pids, 2 calls, 1 kill, `kill_all`, EINTR; 1.5·10⁵ states | `Tracked`, `NoneLeft`, `CwdAgrees`; every stop is resumed, the loop ends; it implements `TracerThread` |
| `dispatch_serves` | x86_64, paths of up to two segments out of `a b l .. .`, two links; 9.1·10⁴ states | refinement of `VirtualKernel`; the table agrees with the kernel after chdir; the exit dispatch changes nothing |
| `dispatch_confines` | aarch64, every handler and a call without one, wide paths, an absolute and a climbing link; 1.7·10⁶ states | rewritten absolute paths and all chdirs stay in the rootfs, the shared folder and what links lead to |
| `memory_access` | words of 2, chunks of 4, limit 7, two pages of 6 with any rights, any address, any end of string | strings read are right and whole; writes exact |
| `services` | 2 clients, 2 starts, inherited sockets; 3.1·10⁴ states | service, liveness and stop of the sockets' worker; it implements `ServiceThread` |
| `guest_init` | the 3 daemons, 6 forks, 1 failed fork | no daemon twice, none left, each restarted |
| `engine` | the app with 2 starts, and the command line program; 2.9·10⁴ states | nothing is used after its delete, nothing is left, services last as long as the guest, a stop ends or hangs for a known reason |
| `touch` | FIFO of 5 events, 3 touches, 2 starts, 2 positions; 3.5·10⁵ states | what the guest takes over is where the finger was |
| `app` | 2 instances, 2 installations, an archive of 2 entries, 4 doings; 2.6·10⁵ states | who owns the engine, what the user is told, whose window is held, what a success means |
| `guest_starts`, `stop_leaves`, `service_stop` | small | section 5 |

Why the bounds are enough:

* **loop**: three pids are a guest, a child, and a child of the child or a
  sibling; the properties relate a task to its parent. Two calls are a fork and
  a chdir, of parent or child, in either order, or two forks. One kill is one
  parent that dies with its announcement unread; `kill_all` is there besides.
  Pids are not reused, as the loop reaps each before it can be. The proofs have
  no bounds.
* **dispatch**: the rootfs has two segments so that `..` can leave it by one or
  by two; guest names `a` and `b` are there on the host as well, so an
  unrewritten path is seen. The two links are one to a directory and, in that
  directory, one whose text goes up; `dispatch_confines` has one with an
  absolute text and one that climbs out of the rootfs. Sequences of calls are
  not bounded.
* **memory**: the sizes keep the code's relations: chunk a multiple of the
  word, limit not one of the chunk, pages not multiples of the chunk. Addresses
  are not aligned, since a guest's strings are not.
* **services**: two clients are one being served and one waiting; the second
  start follows a stop. The code's backlog of 16 is not reached, and what is
  beyond it waits outside.
* **init**: six forks are one restart each, or three of one.
* **engine**: the second start finds what the first left. A program has one
  thread of each kind.
* **touch**: a frame of DOWN has seven events, so a FIFO of five loses some of
  every DOWN that finds it empty and unread; three touches are a gesture with a
  MOVE.
* **app**: `Enough` bounds launches, installations and deaths together; an
  instance beside another weighs two. Four allow a second instance with two
  installations, or with one and a death. Two entries are the two markers, of
  which the first can be there without the second; clicks, finishes and surfaces
  are not bounded.

### Fairness

`TraceLoop` (`FairSpec`) has weak fairness of `LoopStep`: one thread, that the
scheduler runs whenever it is not in a blocking call. `SocketService` has it for
each step of the two threads, but not for starting and stopping, which are the
user's. Weak fairness suffices, for a step stays possible once it is.
`GuestInit` has it for `main`. `EngineLifecycle` has it for every thread, and of
the tracer that it gets through `spawn_guest` (the child stops or dies by
itself) and that it leaves its loop once the guest is dead, which is `LoopEnds`
of `TraceLoop`. `App` has it for the threads of the installations from the
archive on, but not for the network, which has no time limit in the code.
Nothing is assumed of the user, the guest, the daemons or the clients: calls may
block for ever and messages may not come. `EveryoneServed` states its assumption
(each client speaks or hangs up) in the property.

### Properties

*TraceLoop.* `Tracked`: a live traced task is in the tree, or on its way there;
`kill_all` and the loop's condition rely on it. `NoneLeft`: the loop does not
leave while a task lives. `CwdAgrees`: the table's directory is the kernel's.
`StopsHandled`: a stop is in the end resumed, or the loop is over. `LoopEnds`:
when all tasks are gone the loop ends, though entries may remain which nothing
will remove (only `ECHILD` helps then).

*SyscallDispatch.* `ServedAsPromised`, `ChdirAgrees`, `Confined`,
`ExitHarmless`, as above. `Confined` is of rewritten calls, and names what links
lead to. `ChdirAgrees` is the part of the correspondence that
`TraceLoop` takes for granted when it treats directories as values.

*GuestMemory.* `ReadsPrefix`: never a byte that is not the string's.
`ReadsWhole`: the whole string, provided its last chunk can be read to the end.
Without that it is wrong: a string near the end of a mapping is cut or lost,
since `read_string` reads whole chunks. `WritesExactly`: success means those
bytes and no others.

*SocketService.* `ReadsOwnWrite`: a client's answer means its value is set, for
as long as the object lives. `NobodyLeftWaiting`: once the service is stopped, who
still waits does so at an inherited socket. `EveryoneServed` names the same
exception (`Left`). `StopAfterClient`: a stop that comes while a client that has
spoken is served returns, unlike one that comes in `accept` (section 5).

`ThreadSpec`, here and in `TraceLoop`, is the refinement: after stop's flag the
worker takes one client at most; the tracer leaves only on an empty tree or a
dead guest.

*EngineLifecycle.* `NoUseAfterDelete`: no thread runs on an object that is
gone. `CleanedUp`: after stop a start finds nothing of the last. `ServedWhileTraced`:
the services are up from the guest's first instruction to its end.
`OneLateUse`: after its close, stream and FIFO are used once more at most; that
they *are* used once is a fact of the code. `StopEndsOrHangs`: a stop returns, or
hangs for ever for one of two named reasons: a service waits for a client, or
`kill_all` has missed the guest.

*VirtualInput.* `SeenIsReal`: contact, coordinates and button are those of the
finger, unless an event that says so was lost since it last went down or up;
later frames make up for whatever was lost before.

*App.* `MachineOwned`: a running engine has an instance that will stop it; one that is
lost takes two instances. `StatusTrue`: a click stops exactly an engine that
runs, and the button says so unless it was relabelled; and the notification. `WindowHeld`:
the display holds the window of a surface that exists, one reference, the one on
the screen. `SuccessTold`: if all that was told is success, the ROM is complete.
`InstallEnds`: an installation that has its archive tells how it went. Each names
what it excepts (`overlap`, `relabelled`, `sticky`, `lost`, `blocked`).

*GuestInit.* `OneInstance`, `NoneSurvives`, `Restarted`; the last two name what
they except: a process signalled before its `execv`, a daemon whose fork failed.

Each has a mutant in `PROJECT.json`: a plausible mistake in the code that makes
TLC find the property violated.

## 4 The proofs

`TraceLoopProofs`, for any numbers of tasks, directories, calls and kills:

* `TypeCorrect`: `Spec => []TypeOK`;
* `EveryTaskTracked`: `Spec => []Tracked`;
* `LoopLeavesNone`: `Spec => []NoneLeft`;
* `LoopImplements`: `Spec => ThreadSpec`, the refinement of `TracerThread`;
* `DirectoriesAgree`: `Spec => []CwdAgrees`.

They assume the module's named assumptions: at least one pid; the directories
contain the two special ones and no names of other calls; the bounds are
numbers and Booleans.

`Tracked` is not inductive. A task that is not in the tree must be announced by
a *stopped* parent whose message nobody has read. To keep that through a step
one has to know that the task in the loop's hand is the stopped task it waited
for, or dead, and that its stop counts as reported (`Handling`); that pids not
handed out name no task and that a child's pid is above its parent's
(`Ordered`); and that nothing has run before the loop (`Spawning`). The
inductive invariant is

    IInv == TypeOK /\ Handling /\ Ordered /\ Spawning /\ Tracked /\ NoneLeft

with a lemma per conjunct that a step keeps it, split by action. `DieTasks`
says once what a death does, for the three actions that kill.

`NoneLeft` at an empty tree needs an argument of its own (`EmptyTree`). No
announcement is in hand at `check`, so each live task has a live parent that
announces it, with a smaller pid. Take the least: it can have none. With
an empty tree there is therefore no live task.

The refinement needs one invariant more: once the thread is past its fork a pid
has been handed out (`Begun`), which tells `done` from `failed`. A step either
is one of the abstract thread's by its phase, or leaves phase and tree alone; then
it brings no task to life (`AliveStep`), and so is the death of the last or unseen.

`CwdAgrees` speaks of tasks outside a chdir, and a step of it must follow one
through. What the table holds before, during and after the call is `Listed`. A
child starts in its parent's directory, which the loop copies when it has read
the announcement: until then the two must stay together unless one of them is
in `drifted` (`Inherited`). That a child has one announcement, and is not in the
tree while it has (`Once`), keeps a second `Register` from undoing a chdir; that
a chdir is only where a call can be (`NoChdir`), and that pids not handed out
have no history (`Fresh`), are what the forks need. `CInv` is the conjunction,
with `Unlisted` for the time before the guest is in the tree, and holds on top
of `IInv`.

`SocketProofs`, for any clients, messages and number of starts:

* `ServiceTypes`: `Spec => []TypeOK`;
* `OwnWriteRead`: `Spec => []ReadsOwnWrite`;
* `NobodyIsLeft`: `Spec => []NobodyLeftWaiting`;
* `ServiceImplements`: `Spec => ThreadSpec`, the refinement of `ServiceThread`.

They assume that what sets is answered and what is answered is a message. The
inductive invariant is

    IInv == TypeOK /\ Sequences /\ Flag /\ SocketAlive /\ Accounted /\ Latest

The flag is set exactly between the thread's start and the stop (`Flag`): that
is why the worker's look at it is enough for the refinement. A client that waits
is in the backlog, is served, or was left by an earlier stop (`Accounted`). A
backlog needs a listening socket, and that its descriptor, a call of `accept` or
a copy (`SocketAlive`). After the join there is neither of the first two, and if
there is a copy the clients are with those the stop has left. `Latest` holds
because what a client has sent does not change while it is served.

`GuestInitProofs`, for any list of different daemons:

* `InitTypes`: `Spec => []TypeOK`;
* `NoneTwice`: `Spec => []OneInstance`;
* `NoneOutlives`: `Spec => []NoneSurvives`.

They assume at least one daemon, and no name twice. The key is that a live
process is the one recorded for its daemon (`Recorded`). A fork keeps that
because the daemon has no live process then: at the start it has none at all, and
a restart is of a process that has been reaped (`Progress`). So SIGTERM to the
recorded pids reaches everyone, in the order of the list (`Passed`).

`AppProofs`, for any numbers of activities, threads of installations, entries of
the archive and doings:

* `AppTypes`: `Spec => []TypeOK`, that of `RomManager` included;
* `EngineOwned`: `Spec => []MachineOwned`;
* `StatusIsTrue`: `Spec => []StatusTrue`;
* `OneWindowHeld`: `Spec => []WindowHeld`;
* `SuccessIsTrue`: `Spec => []SuccessTold`.

They assume that the markers are entries of the archive, that the two bounds are
numbers, that no activity has the name that stands for none, and no thread that
of a file's state.

`overlap` is what these properties speak of, so they need to know what its
absence means: at most one instance exists (`Alone`), and the display has taken
the surface there is (`WindowTaken`). A button differs from `mIsRunning` of its
instance only where it was relabelled (`ButtonsHeld`). The inductive invariant is

    IInv   == RomTypeOK /\ FilesInv /\ AppInv
    AppInv == AppTypeOK /\ Alone /\ ButtonsHeld /\ MachineOwned
                        /\ StatusTrue /\ WindowHeld /\ WindowTaken

with a lemma per group of callbacks. Three steps carry the argument. A start
that finds an engine running which the shown instance has not started finds its
owner besides it, so the two have overlapped (`Click`). A dying instance that
stops the engine under another's button has overlapped with that one
(`Destroy`). And `set_native_window` counts right although it may be given the
window it holds, as it takes the new reference and drops the old (`Surface`). An
installation changes nothing of this but a button, which it relabels
(`Untouched`, `RomTypes`).

`FilesInv` is about the files. Threads truncate and replace what others have
unpacked, so no thread can count on its entries being whole, only on their being
whole or in somebody's hands (`Passed`). A file in a thread's hands is the one
after its last (`Owned`), so once all threads are idle there is none; what a
success promised is then whole (`Told`). That an exit code of zero is that of a
`tar` at its end fails only after the engine has taken one (`Settled`).

`EngineProofs`, for either program and any number of starts:

* `EngineTypes`: `Spec => []TypeOK`;
* `NothingFreedInUse`: `Spec => []NoUseAfterDelete`;
* `StopLeavesNothing`: `Spec => []CleanedUp`;
* `GuestServed`: `Spec => []ServedWhileTraced`;
* `AudioUsesOnce`: `Spec => []OneLateUse`.

They assume that the programs are those two and the number of starts is one. The
four sequences of steps are looked at once: that a step comes before those it
must come before is `Orderly`, a property of a sequence that its tails have
too, so it holds of `todo`. The rest of the invariant says what the steps that
remain tell of the state: while it starts, an object exists if its `new` is done
(`Starting`); while it stops, until its `delete` is (`Halting`), and a thread
until its `join`. A thread that could use a deleted object would have its `join`
before it in `todo` and the object's `delete` behind it. `AudioOwned` and
`AudioLate` follow the descriptor and the stream through `stop`: the flag is
down before the close, so after one late use the thread finds it so.

`InputProofs`, for any size of the FIFO, coordinates, touches and starts:

* `InputTypes`: `Spec => []TypeOK`;
* `TouchSeen`: `Spec => []SeenIsReal`.

They assume that the FIFO holds something, that there are coordinates, and that
none is called `none`. `SeenIsReal` compares what was sent with what is read much
later, so the invariant is about what the guest is *going* to see: there is a
sequence of states which its slot goes through as it reads the FIFO
(`Believed`), every known frame in it shows its pointer, and the last state
together with the events still to be written is the finger (`Ready`). A write
makes it longer at one end, a read shorter at the other.

`MemoryProofs`, for any sizes of memory, pages, chunks and words, and strings of
any length:

* `MemoryTypes`: `Spec => []TypeOK`;
* `NothingMadeUp`: `Spec => []ReadsPrefix`;
* `NothingMissing`: `Spec => []ReadsWhole`;
* `WriteIsExact`: `Spec => []WritesExactly`.

They assume that the sizes are positive (`SizeAssumption`). What has been read
is the beginning of the string, in whole chunks (`Copied`, `Chunks`); what has
been written is new bytes in their place, and all of them as far as the words
have come (`Written`), which is why the words may start from where the partial
transfer began. `original` is the memory before.

`DispatchProofs`, for any rootfs, links, set of directories, calls, and paths of any
length, on both architectures unless a hypothesis says otherwise:

* `DispatchTypes`: `Spec => []TypeOK`;
* `PathsConfined`: `Spec => []Confined`, if `Placed` and `Supplied(Names)`;
* `DirectoryAgrees`: `Spec => []ChdirAgrees`, if `Placed` and `ChdirAbsolute`;
* `ExitsAreHarmless`: `Spec => ExitHarmless`, if `Placed` and `Harmless`;
* `GuestServedAsPromised`: `Spec => ServedAsPromised`, the refinement of
  `VirtualKernel`, if `Placed` and `Promised`.

The hypotheses say for which guests and places the code does it:

* the named assumptions: the rootfs and what the guest gives are paths, the
  engine is in a directory with a normalised name, and links have names without
  dots and stand for whole chains (`LinkAssumption`);
* `Placed`: the rootfs is an absolute path without dots, and not below
  `/sdcard` or `/storage`, where its own paths would count as shared. The app's
  is in `getFilesDir()`;
* `Supplied(Names)`: no name continues the rootfs's last one, for `rfind` takes
  `/data/rx` for a path inside `/data/r`, and so leaves it outside;
* `ChdirAbsolute`: a relative chdir goes wrong (2.2);
* `Harmless`: no `getcwd` on x86_64 and no `prctl` on aarch64 (2.2);
* `Promised`: what 2.2 lists is left out: relative paths but for `execve`, where
  `..` stays below the start; a chdir that fails or goes through a link; paths
  below the shared folder or with the rootfs in front; cancelled calls on
  aarch64; `getcwd`, `execveat` and calls without a handler. The engine itself
  runs outside the rootfs. Each link is in the rootfs and leads the
  host's kernel to where it leads a chrooted one (`Kind`), and each path goes
  through the links to where its normalised name does (`Straight`): no `..` undoes
  a link.

The instance of `dispatch_serves` meets all of them, and that of
`dispatch_confines` the first three.

`normalize_path` is defined by recursion on the number of segments, and the
installed provers cannot apply the library's induction. `Least` gets the same
from well-foundedness: a set of numbers, and so of lengths, that is not empty
has a least element. `Walks` so shows that the function exists, and `Shortest`
turns "every path" into "no shortest counterexample". It follows that the result
has no dots (`NormalClean`), that what has none stays (`NormalSame`), and that a
path which does not climb above its start is normalised where it is
(`NormalConcat`). The kernel's `Walk` is defined in the same way. On names
without dots it stays where it is or ends below some link's end (`WalkThrough`),
which makes `Confined` a statement about the resolver and the ends of the links;
and if the links are kind, the host's walk from the rootfs is the chrooted
kernel's walk from its root with the rootfs in front (`WalkInside`). So the
host's kernel arrives where the virtual one does (`Reached`, `Arrives`). From
the others, what `resolve` returns is inside the rootfs or the shared folder
(`ResolvedInside`) and resolves to itself from any directory (`ResolvedOnce`):
that is why the second dispatch is harmless.

The invariant is `Base` (paths, registers, and that the call in progress is the
one made, or cancelled), `Settled` (a path the kernel is given is resolved) and
then, by theorem, `Kept` (it is inside), `Moved` (the table has the directory
that is in the buffer) or `Serving`. That last one needs care with the table:
after the exit of a chdir on x86_64 it has the host's name of the directory, as
the second dispatch takes what the first has written. Both names resolve to
the same (`Table`). `..` would tell them apart, whence the restriction.

Only model-checked is liveness: `StopsHandled`, `LoopEnds`, `EveryoneServed`,
`StopAfterClient`, `StopEndsOrHangs`, `InstallEnds`, `Restarted`. TLAPS proves
neither liveness under fairness nor `ENABLED`. Every other property of a
passing run is a theorem.

## 5 Where the code does something else

Each has a run whose counterexample shows it.

* **`guest_starts`**: `spawn_guest` consumes the guest's initial stop and does
  not resume it. `run_loop` waits first, and nothing is left to report. The
  guest never runs, unless that `waitpid` was interrupted.
* **`stop_leaves`**: `kill_all` kills what is in the tree. A child whose
  announcement has not been handled is not, and the loop ends on the tree that
  has just been emptied. (The guest of this run started by way of `EINTR`. A task
  that was killed and halts in its exit does not count: it is let go when the
  tracer ends.)
* **`service_stop`**: `stop` closes the socket, which does not wake a thread in
  `accept`, and joins it. `nativeStopVM` hangs on the UI thread until a client
  that is already connected is served, and the path is unlinked by then.

Met while modelling, without a run of their own:

* `patch_rootfs.py` links `libc.so` of the rootfs to an absolute text below
  `/apex` (line 118), so that the dynamic linker finds it there (line 107). The
  guest's path is rewritten, but the host's kernel then follows that text from
  its own root, and the guest gets the host's libc, or none. `fix_symlinks`, which is
  to make links relative, runs before and looks for texts that begin with the
  rootfs's host path. In `dispatch_confines` the name `/x` is such a link;
* on aarch64 writing `x8` by `NT_PRSTATUS` does not change the call
  (`NT_ARM_SYSTEM_CALL` would), so `getuid` answers the app's uid, and not 0;
* every path below `/sdcard/Download` resolves to the directory itself;
* the start button appears when the two markers are there, so the engine can be
  started on a ROM that is still being unpacked, or that a death of the process
  left half done;
* an installation that ends after that writes "Start Android 15" on the button,
  and a click on it stops the engine;
* a guest process that outlives a stop keeps the listening sockets it has
  inherited: clients in their queues wait for its end;
* calls without a handler (2.2) see the host's files;
* a second instance of the activity can start a second engine, which overwrites
  the globals of the first: its threads run on and nobody can stop them;
* an installation while the engine runs may report success though `tar` failed,
  and the other way round: the tracer's `waitpid(-1)` may have had its exit code;
* a stop right after a start may come before the guest is in the tree: the
  join of the tracer then waits for a guest nobody kills;
* nothing tells the app that the guest has ended: button and notification stay;
* `PTRACE_O_EXITKILL` is not set, so a guest outlives an app that dies;
* a chdir a child makes before it is registered is overwritten with its
  parent's directory;
* `run_loop` resumes with signal 0, so no guest process gets any signal but
  SIGKILL. Under the tracer `handle_signal` of the orchestrator never runs;
* `waitpid(-1)` also reaps children of the app that are not the guest's;
* `register_binder_fd` and `register_fb_fd` have no caller; nor have
  `get_property`, `post_frame`;
* `virtual_framebuffer.cpp` and `dns_proxy.cpp`, which `jni_bridge.cpp` uses,
  are not in `CMakeLists.txt`;
* the surface that goes takes the window of another instance with it.

## 6 Not modelled

* **Binder, framebuffer, gralloc, EGL**: no caller reaches their state. Their life
  time is in `EngineLifecycle`; `update_frame` of the display has no caller either.
* `send_key` of the input has no caller.
* **Rootfs tools, the earlier engine**: input and output only, or not built. The
  links the tools leave in the rootfs are in `SyscallDispatch`.
* Within the modelled parts: environment variables, logging, the parsing of
  property files, `resolv.conf`; the fields of `GuestProcess`, which nobody
  reads; names of binder endpoints; memory shared by threads of the guest,
  which may change a path after it was rewritten; what lies behind a path in the
  guest's memory; the host's own links; pid reuse; SIGPIPE.

## 7 Plan

Modules in order: `TraceLoop` with its proofs, `GuestPaths`,
`SyscallDispatch` with `VirtualKernel`, `GuestMemory`, `SocketService`,
`GuestInit`, then `ServiceThread`, `TracerThread`, `VirtualAudio` and
`EngineLifecycle` on them, `VirtualInput`, `RomManager`, `App` with its proofs.
All are done. What
code could still be modelled has no caller; should it get one,
**`DescriptorTables`** (binder and framebuffer, with close and fork) is next.

Every safety property and every refinement a passing run checks is proved. What
is left, in order:

1. `EngineLifecycle` is built on `TracerThread` and `ServiceThread`, and
   `TraceLoop` and `SocketService` implement these. `VirtualAudio` is in it as it
   is. A theorem that audio implements `ServiceThread` would let the lifecycle
   have three services of one kind, and `OneLateUse` a module of its own.
2. `Promised` without `..` excluded, for aarch64, where the table keeps the
   guest's name.
3. The safety half of `StopEndsOrHangs`: in which states a stop can wait.

Runs are kept to one per question; a composition replaces the run of the part
it contains (`VirtualAudio` and `RomManager` have none of their own).
