# libnekit-c in TLA+

A verification development for libnekit-c, a small C99 library for proxies on
top of libuv.  The modules here are translated from the code under `src/`; TLC
checks them on small instances and TLAPS proves the main results for every
instance.

    tlc -config TcpSocket.cfg TcpSocket.tla      # model checking
    tlc -config Socks5.cfg MCSocks5.tla
    tlc -config RedBlack.cfg MCRedBlack.tla
    tlapm TcpSocketProofs.tla                    # proofs
    tlapm RedBlackProofs.tla

## The system

Everything runs on one thread, in callbacks of a libuv loop.  There is no lock;
what is hard is the order in which callbacks come, what the user of a layer does
inside them, and what is still on its way when a socket is closed.

| part | state | operations | used by |
|---|---|---|---|
| memory pool (`src/src/utils/memory_pool.c`) | array of buffers, free list (SLIST), flag per buffer, count of heap buffers | init, get_buf, buf_free, free | proxy sockets share one |
| TCP socket (`src/src/utils/tcp_socket.c`) | status, reading, receiveEOF, timeout, two close flags; libuv handle, timer, one request of each kind | init, bind, listen, connect, read_start/stop, write, shutdown, close, 7 libuv callbacks | proxy sockets, user |
| proxy socket (`src/src/socket/proxy_socket.c`) | read_buf, write_buf, positions, callbacks | init, start, start_forwarding, shutdown, close; the socket's callbacks | SOCKS5 socket |
| SOCKS5 socket (`src/src/socket/proxy_socket_socks5.c`) | read_status, write_status, addr_type | read, write and forward handlers: greeting, request, reply | user |
| session (`src/src/utils/session.c`) | destination of a request: what was malloc'ed, and the count by which it is freed | init, free | SOCKS5 socket, user |
| trees (`src/include/tree.h`) | a red-black or a splay tree through pointers in its elements | insert, remove, find, nfind, next, prev, min and max | nothing yet: the library ships the header |
| log, error strings, other vendored headers | - | - | - |

Interaction: libuv calls a static callback of `tcp_socket.c`; that one
classifies the status (`__ne_tcp_socket_handle_error`), touches the timer and
calls a function pointer of the socket (`on_read`, `on_write`, ...); a proxy
socket has installed its own functions there, which get and free pool buffers,
run the SOCKS5 handlers and call the user's function pointers; and each of
these may call back into every layer below before it returns.

What makes each part correct:

* pool: no buffer has two users; a buffer given back is found again; the free
  list is exactly the free blocks; the heap is used only when the pool is
  empty; the pool is freed only when nothing is lent.
* TCP socket: `uv_close` once; nothing of a closed socket is left in libuv when
  `on_close` says that it can be freed; late answers never take the status back
  or reach the user as news; each write is answered exactly once; a silent peer
  is given up; closing always completes.
* SOCKS5: each message is judged when it is complete and not before; one write
  at a time; the user hears of a connection in the order of the callbacks, of a
  session once and of the close last; the socket is closed once, its session and
  its buffers can be given back, and its memory serves the next connection.
* trees: whatever is rotated, the pointers are a search tree of the elements
  that were put in; a red-black tree stays balanced, a splay tree has what was
  asked for on top.

The hazards, each at its line, are in `PROJECT.json`.

## Modules

| module | what it is |
|---|---|
| `BufferLending` | abstract: what a pool promises. A buffer is lent to one client at a time; the pool can be retired when nothing is lent. |
| `MemoryPoolOps` | `memory_pool.c`: a pool is a record (`first`, `next`: the SLIST pointers; `used`; `alloc_bufs`; `heap`), each C function an operator from a pool to a pool. |
| `MemoryPool` | a pool and its clients: each call by a client an action, and the properties. |
| `MemoryPoolProofs` | theorems about `MemoryPool`. |
| `SocketPromise` | abstract: what a socket promises its user. |
| `TcpSocketOps` | `tcp_socket.c`: the functions as operators on a record with the fields of `ne_tcp_socket_t`, the libuv state it owns, and the callback that is running. |
| `TcpSocket` | one socket, its user and the loop: an action per API function and per libuv callback, and the properties. |
| `SocketLemmas` | what the operators of `MemoryPoolOps` do to a pool and those of `TcpSocketOps` to a socket, whoever uses them. |
| `TcpSocketProofs` | theorems about `TcpSocket`. |
| `Socks5Messages` | what `__socket_read_handle` says of a greeting or a request of which `n` bytes are in the buffer, and the lengths that the messages have on the wire. |
| `ProxySocketOps` | `proxy_socket.c` over `TcpSocketOps` and `MemoryPoolOps`. |
| `Socks5Ops` | the handlers of `proxy_socket_socks5.c` over `ProxySocketOps`. |
| `ProxyPromise` | abstract: the order of callbacks that a proxy socket promises its user. |
| `Socks5` | accepted connections that share a pool, their peers, the user and the loop; the properties. |
| `Socks5Lemmas` | theorems about those verdicts; the inductive invariant `Inv` of `Socks5`, and what the handlers do to a connection for which it holds. |
| `Socks5Proofs` | the same for whole actions, each callback of the loop (`LoopStep`) and each call or return of the user (`UserStep`); theorems about `Socks5`. |
| `MCSocks5` | the clients of the instances that TLC checks. |
| `OrderedSet` | abstract: what a tree promises, a set with questions about the order of its keys. |
| `TreeOps` | the kids of the nodes, one assignment and one rotation, and what hangs from a node. |
| `SplayOps` | the macros of `SPLAY_GENERATE`. |
| `SplayTree` | a program that calls every function of a splay tree, and the properties. |
| `RedBlackOps` | the macros of `RB_GENERATE`, and the assignments of its functions between two turns of a loop. |
| `RedBlackTree` | a program that calls every function of a red-black tree, and the properties. |
| `MCSplay`, `MCRedBlack` | the elements of the instances that TLC checks. |
| `TreeLemmas` | what hangs from a node, and what assignments, rotations and splices do to it. |
| `SplayProofs`, `RedBlackProofs` | theorems about the two trees. |

The `...Ops` modules are written as operators on records so that a module that
composes them can call several functions in one handler, as
`proxy_socket_socks5.c` does.  Operators called `Bug...` are wrong variants of
the definition that follows them; nothing uses them, they are there to be put
in its place to see that a property notices.

### MemoryPool

`pool.next` holds the pointers that the code writes and not a sequence, so a
block inserted twice makes a cycle in the model as it does in memory.  The data
of buffers, sizes and the address arithmetic of the blocks are left out.
`GetFails` is `__memory_buf_create` when the second `calloc` fails; `leaked`
remembers what no pointer leads to any more.  The clients keep the contract of
the header: they free what they hold, once.

### TcpSocket

The event loop runs one callback at a time.  `sock.frame` is the user's
callback that is running, `"loop"` when none is.  A libuv event is an action
that runs the C callback up to the call of the user's function; then the user's
actions (any API call its assertions allow) happen, any number of them; and
`Return` runs what is left of the C callback.  Only `on_error` has something
left: the close and the report to `on_read` or `on_write` (`AfterError`).

`timeout` is a boolean (zero or not); data is left out; addresses, bind and
listen are left out (they change nothing in the struct).  The errors of libuv
are three: `reset` for those `handle_error` has a case for, `refused` for those
it has none for, `canceled`.  With assertions (`NDEBUG = FALSE`, the default
build) `refused` stops the process: `fault` says so and nothing happens any
more.  `ConnectFails` is a connect that `uv_tcp_connect` refuses at once: the two
errors with a case are returned to the user and leave the socket as it was,
another one stops the process in the same way.

libuv is external and modelled from how the code uses it and what its
documentation promises: `uv_close` stops reading and the timer at once, cancels
a queued write, a connect and a shutdown, whose callbacks run before the
handle's close callback; a write that is completed or failed when the handle is
closed keeps that status; the timer repeats; `uv_timer_again` does nothing to a
timer that was never started; a second `uv_close` is an assertion.  The order
of events that are ready together is free, also between the two close
callbacks.

The user's contract: one write at a time (`write_req` is a field of the
socket), `timeout` is set only before connecting or in `on_connection`,
nothing is called from `on_error` and after closing.

### SOCKS5

A handler of `proxy_socket_socks5.c` reads and changes three things in one go:
its socket, its own struct and the pool.  The operators of `ProxySocketOps` and
`Socks5Ops` take the three together as a world `[tcp, ps, pool]`; an action of
`Socks5` applies a whole handler and stores the parts (`Becomes`).

* `ps.read_buf` and `ps.write_buf` are pointers.  They keep naming a buffer that
  was given back where the code does not clear them (after the request, after
  every write), and a later release through such a pointer does what the code
  does: it flags a block as free a second time, or frees a heap buffer again
  (`double_free`).
* There are two frames.  `ps.frame` is the callback of the user of the proxy
  socket that is running, `tcp.frame` the callback of the TCP socket it runs
  under.  `Return` ends the first and runs what is left of the handler:
  the close after `on_error` (`AfterNotify`), the fall through to `NE_GERR`
  after `on_EOF` (`AfterEOF`).
* Data is a script: a peer sends one greeting and one request, of which only the
  fields that the handlers branch on are kept (`ver`, `nmethods`, whether 0 is
  among the methods; `ver`, `cmd`, `atyp`, the length of a name), and then
  anything.  Bytes come in pieces; `read_pos` counts those in the buffer.
* `ps.session` is what matters of a `ne_session_t`: whether `host` is set (the
  library leaves it NULL; a script says whether the user has set it), the counts
  of addresses that the request handler writes, and `live`, how many pieces of
  memory the session has.  The user frees the session it was given when
  `on_close` returns: `SessionFree` frees by the counts, as `ne_session_free` does.
* A connection whose `on_close` has returned is memory that the user may take
  for another: `Accept` starts again from `ne_tcp_socket_init` and
  `ne_proxy_socket_init`, with another peer.
* `malloc` and `calloc` may fail where the code calls them.
* When no room is left in the buffer libuv reports `UV_ENOBUFS` and keeps
  polling (`ReadFull`).  With assertions that is an error that stops the
  process; without, it comes again in every iteration and resets the timer.
* A write starts "queued" and may settle at once, also before the handler that
  started it has returned (`WriteSettles`).
* A read of 0 bytes (`EAGAIN`) is left out: libuv asks for more than it was told
  is there only after a read that filled the buffer, and then there is no room.

The user keeps the contract of the test and the headers: it accepts and starts a
socket in `on_connection`, calls `start_forwarding` once, after `on_session`,
shuts down only when forwarding, calls nothing in `on_error`.  It may close at
any other time, from callbacks or outside them.  How data is written when
forwarding is not in the repository (no function of `proxy_socket.c` does it);
`Echo` is external and sends back the buffer that was read, as the handler of
the greeting does.

`ProxyPromise` is what a user may rely on: one callback at a time; `on_session`
once, before anything is forwarded; `on_read` again only when the user has
written what it read; nothing but `on_close` after a close, and `on_close` only
when no write is owed an answer; then, and only then, the next connection.
`Promise` in `Socks5` maps a connection to it (`LifeOf`, `SaysOf`), and
`PromiseSpec` says that every step is one of its steps or a stutter.

### Trees

The code of `tree.h` is written twice, once for each side, by macros whose
arguments are swapped; an operator here takes the side `d` instead.  A node is
the record of pointers that the code writes: two kids, and in a red-black tree a
parent and a colour, so that an assignment that is dropped or made in the wrong
order shows.  `SCRATCH` is the struct `__node` on the stack of a splay.

A call runs in steps, one for each turn of each of its loops; what is between
two loops is part of the step before or after it.  So the state has what the
loops keep in local variables: `acc` is `__left` and `__right` of a splay, `at`
and `up` are `tmp` (or `elm`) and `parent` (or `res`) of a red-black tree.  The
program is sequential: the steps are there because what holds in the middle of
a call is what the result depends on, and because an invariant of a loop can be
proved where the result of a recursion cannot.  For the same reason `Elements`,
what hangs from a node, is not computed by going down the tree: it is the least
set that has the node and is closed under kids, which makes sense also when the
pointers are wrong.

While a splay runs there is no tree, but three of them: what hangs from the
root, and two parts (`Part`) that hang from `__node`.  The ends of the parts,
`acc`, still have a kid that belongs to another; `Cut` is the memory without
these two pointers, and the parts are taken there.

`Held` are the elements that the program has in the tree: from the return of an
insertion to that of a removal.  What a removed element's memory holds is up to
its user (`Forget`, `ForgetKids`, external).  `SPLAY_MINMAX` is a splay that
always turns one way, which is what its `__comp` makes it.  `RB_AUGMENT` is
empty by default and left out.

The program inserts any element, also one whose key is there already, and
removes and asks in any order; `RB_REMOVE`, `RB_NEXT`, `RB_PREV` and
`SPLAY_NEXT` get elements of the tree, as their code requires.

## What TLC checks

| run | instance | shows |
|---|---|---|
| `memory_pool` | 3 blocks, 2 heap buffers, 2 clients | all orders of get and free, exhausted pool, failing calloc |
| `tcp_socket` | with assertions | all invariants, action properties, refinement, liveness |
| `tcp_socket_timeout` | | a finding |
| `socks5` | with assertions, 1 connection, ten kinds of client | who is refused deserves it, who gets a session has sent a whole greeting and a whole request; a handshake ends |
| `socks5_release` | `NDEBUG`, 1 connection after another, the same clients | forwarding too: types, alternation of reads and writes, one close, the order of the user's callbacks (refinement of `ProxyPromise`), sessions freed, closing completes and writes are answered |
| `socks5_pool` | `NDEBUG`, 2 connections, 1 block, 1 heap buffer | no buffer is forgotten: each one that the pool counts as lent is still named by a connection; the inductive invariant `Inv` |
| `socks5_closing`, `_forward`, `_lent`, `_layout` | | findings |
| `splay` | trees of 6 elements, two with one key | search trees between calls, what was asked for on top, a refinement of `OrderedSet`; every call returns |
| `red_black` | the same elements | search trees with true parents at every turn of every loop, balanced between calls, a refinement of `OrderedSet`; every call returns |

Bounds: three blocks let a list have a first, a middle and a last element, so
that a wrong link shows; two heap buffers let the count be wrong without being
zero; two clients suffice for a buffer to be shared.  A socket has no bound at
all: its state is finite, and sockets share nothing but their user.

The buffer of `socks5` has 26 bytes, two more than the longest request the
handler accepts, so that a client can also send too much; that of
`socks5_release` has 13, so that the first data that is forwarded, which comes
behind the request, can fill it.  In both, pieces have every size there is.  The
clients (`EveryKind`) are one for each branch of the handlers.  In `socks5_pool`
two connections can take both buffers while each may need one more, so that the
pool and the heap both run out.  Bytes come in pieces of ten there, a greeting, a
request or data, and the buffer has 20, so that the first data that is forwarded
is read behind the request and what follows into a buffer of its own.  (A read
that finds a buffer full is in `socks5_release`.)  The connections are symmetric,
and timers become due one at a time and between callbacks (`OneDue`), which
leaves out no order in which they fire.  `LentIsHeld` and `Inv` are the only properties there: the others are
about one connection at a time.

In `splay` and `red_black` two of six elements have the same key, so that a tree
has up to five, and one of a key may be inserted, or asked for and removed, when
the other is there.  Five elements are enough for every branch of insertion
and removal in a red-black tree, on both sides, with a fix-up that climbs once,
and for splays of several turns, of either kind and to either side.
Longer climbs and deeper paths are what the proofs are for.

Fairness (`FairSpec`): callbacks of the user return; time passes; libuv answers
cancelled requests and closes handles; and `TimedOut` is strongly fair, because
every iteration of `uv_run` runs the timers that are due, however many other
callbacks it runs.  Nothing is assumed of the peer or of what the user calls.
`WatchdogFires` needs no more: a socket whose peer says nothing is closed even
if its user writes all the time, because only reads and the connect reset the
timer.  (The reverse of that: a connection on which data flows only outwards is
closed after SOCKET_TIMEOUT.)

`Socks5` assumes the same for each connection; since connections share the loop,
and a callback of one can always come before a callback of another, what libuv
owes a closed handle is strongly fair there.  `HandshakeEnds` is claimed only
with assertions, where a process that an assertion stops counts as an end (a
full buffer does that, and an error without a case): without them a peer that fills the buffer (say a greeting that
announces 255 methods, in a buffer too small for it) keeps the loop in
`ReadFull`, which resets the timer each time, for ever, so that the strong
fairness of `TimedOut` would not be justified there.  `CloseCompletes` and
`WriteEnds` do not depend on it and are claimed in `socks5_release`: a connection
does not read while it writes (`NoReadWhileWriting`), so that nothing resets the
timer while a write is out, and a write to a peer that takes nothing ends when
the time is over.  A pool and a heap that have nothing left are no exception: a
connection that needs a buffer to read into stops the process
(`NEASSERT(psock->read_buf)`; fault `no_buffer`, also for the NULL pointer that a
build without assertions uses), and one that starts forwarding reports
`NE_ENOMEM` and is closed.

A call of a tree function goes on until it returns (`FairSpec` of `SplayTree` and
`RedBlackTree`): nothing else runs.

### Findings

* `ZeroDisablesTimeout`: `timeout = 0` cannot disable the timeout of an
  accepted socket, whose timer is running before any code of the user runs.
* `NoReadOnClosing`: the socket asserts that reading does not start on a closing
  socket; the write handler starts it whenever a write succeeds, also after a
  close.
* `ForwardingStarts`: the assertion `psock->write_status = PS5WVERSION` assigns
  0 and so always fails; `start_forwarding` works only without assertions.
* `BufferInUseIsLent`: `read_buf` is given back when a request is accepted and
  not cleared; when reading starts again for forwarding the pointer is not NULL,
  so no buffer is taken: libuv reads into the one that the pool holds as free,
  and that the next connection is lent, behind the 10 bytes of the request
  (`read_pos` is reset only with a new buffer).  With assertions forwarding does
  not start, and two connections are needed: the close of one gives back, through
  the pointers it has kept, a block that the other has been lent since.  A block
  that is given back twice may be on the free list twice, and a list whose links
  are overwritten may lose other free blocks; `LentIsHeld` says nothing of those,
  only of buffers flagged as lent.
* `RequestHasLayout`: the port of a domain request is read one byte before its
  place, and for an IPv6 address the handler waits for 24 bytes where there are
  22 (`IPv6NeverAccepted` proves that whoever sends the 22 waits).

Known and without a run of their own: a socket that connected stays `CONNECTING`
(no line of `__ne_tcp_socket_connect_cb` sets the status that
`tcp_socket.h:30-33` announces; see `ConnectCb`); a request of an unknown
address type makes the handler close its socket twice (`AfterNotify`;
`ClosedOnce` says that nothing else does), which libuv answers with an assertion
of its own; a greeting that comes in pieces is refused, unless the first piece
is a single byte (line 47, `GreetingVerdict`; `RefusalDeserved` excepts it), and
one with bytes to spare is waited for (line 43); a failing second
`calloc` in `__memory_buf_create` loses the header the first one allocated
(`leaked` in `MemoryPool`); without assertions a write that fails with an error without a
case is reported as a success (which is why `WriteReportHonest` is claimed with
assertions only).

Seen while reading, outside the models: `ne_memory_pool_free` calls `free(pool)`
although `ne_memory_pool_init` takes a caller's struct, and the SOCKS5 test
passes a global (`src/test/socket/test_proxy_socket_socks5.c:12,80`);
`error.c` does not compile and is not built.

## What is proved

For every number of blocks, set of clients and set of heap buffers
(`PoolAssumption`), and for both values of `NDEBUG` (`BuildAssumption`), unless
said otherwise:

* `MemoryPoolProofs`: `TypeCorrect`, `FreeListCorrect`, `AccountsCorrect`,
  `HeapIsLastResort`, `PoolLends`.  `PoolInv` is `TypeOK`, `FreeListExact` and
  `AccountsExact` together: freeing a block keeps the list exact only if the
  block is not on it, which is what the flags say, and the flags agree with the
  holders.  The list is handled through the sequence `s` of its elements
  (`Lists`): taking the first drops `s[1]`, freeing puts a block in front.
* `TcpSocketProofs`: `TypeCorrect`, `FreeableWhenClosed`, `AbortsOnlyOnRefusal`,
  `WatchdogCorrect`, `StatusGoesForward`, `ClosingIsQuiet`,
  `SocketKeepsPromise`, and with assertions `ReadingCorrect` and
  `WriteReportsTrue`.  `SocketInv` adds to the invariants how the status, the
  two flags and the two handles move together (`HandlesAgree`), that requests
  end before handles (`RequestsAgree`), and what holds while `on_error` runs
  (`ErrorPending`, `ReadingAgrees`) or the end of a read is told
  (`ReadingTold`).  `HandleErrorCases` lists the ways out of
  `handle_error` once for the four callbacks that call it.  The action
  properties and the refinement are proved from `NextStep`: every step is of
  one of twelve kinds of what the user can see.
* `Socks5Lemmas`, of the verdicts: `GreetingAnsweredWhole`, `WholeGreetingAnswered`,
  `RequestInPieces`, `RequestAcceptedWhole`, `IPv6NeverAccepted`,
  `PortReceived`, `GreetingRefused`, `RequestRefused`: what the verdicts say of every greeting, request and number
  of bytes, where the runs have ten clients.
* `Socks5Proofs`, for every set of connections, clients and sizes of pieces
  (`ScriptAssumption`) and every size of a buffer (`BlockAssumption`):
  `Invariant`, `TypeCorrect`, `ReadsAndWritesAlternate`, `RefusalsDeserved`,
  `SessionsFreed`, `ClosesOnce`, `NoBufferLost`, `SessionsEarned` and
  `ProxyKeepsPromise`, that is every safety property of `Socks5` that a run
  checks.
* `SplayProofs`, for every set of elements, finite or not, and every order of
  their keys (`TreeAssumption`, `UsesAssumption`): `Invariant`, `AlwaysLinked`,
  `AlwaysRequestedOnTop` and `Implements`.
* `RedBlackProofs`, for the same: `Invariant`, `AlwaysLinked`, `AlwaysBalanced`
  and `Implements`.

The argument about `Socks5`.  None of its properties is inductive: that a
handler starts a write only when none is out, say, follows from what the user
has been told and not yet answered, from the state of the handlers and from
whether libuv polls, which three layers keep in different variables.  `ConnInv`
says how they move together, for one connection, in named parts:

* `SoundSocket`: the handles, requests and flags of the socket agree with its
  status; `SoundPool`: the pool's counter agrees with its heap buffers, which
  stays true although `Socks5` gives buffers back twice;
* `BuffersAgree`: a write has a buffer, data that the user was given has one,
  and a socket that is not in use has none;
* `Alternates`: while a write is out, and while the user has a session or data
  to deal with, nothing is read;
* `StagesAgree`: what `read_status` and `write_status` are at each stage of the
  user; `GreetingPassed`: past the greeting, it was well-formed, and while its
  answer is out `read_pos` is still its length; `Deserved`: `RefusalDeserved` for
  one connection, which lasts while `on_error` runs;
* `SessionAgrees`: what is allocated for a session is what `ne_session_free`
  goes by; `FramesAgree`: which callbacks can run in which status.

`Inv` is `TypeOK`, `ConnInv` of every connection, `SoundPool` and `LentInv`: a
buffer that is lent is `Owned` by a connection.  `Owned` is narrower than what
`LentIsHeld` says, since `write_buf` keeps its value when its buffer is given
back: it counts only while it is written from or certain to be given back again.
Without that, a step that clears or overwrites `write_buf` could lose a buffer
as far as the invariant knows.

A handler reads and writes the world of one connection, so its lemma does too:
`LoopStep(w, st, x, cl)` says of a handler that takes the world `w` to `x` that
the invariant of the connection holds after it, that no lent buffer lost its
holder (`Keeps`), that a greeting that is passed and a request that gets a
session are whole (`Passes`, `Earned`), and that the connection made one of the
moves of `ProxyPromise` (`LoopMove`); `UserStep` says the same of the
user's calls and returns.  `Socks5Proofs` turns these into steps of the whole
(`Moves`): another connection keeps its pointers, hence what it owns.  The
refinement maps `Moves` to actions of `ProxyPromise` one by one; a step that
stops the process is `Crash`, and then only `Rest` is left.

The argument about the trees.  `TreeLemmas` starts from the two facts that make
`Elements` a least closed set: it is closed, and whatever is closed and has the
node has all of it.  From these come how it changes when one pointer changes,
that a subtree that is not written to stays what it is, and that in a search
tree the two kids of a node have nothing in common.  A macro is then read
pointer by pointer (`PutAt`, `RotateAt`, ...) and what hangs from each node it
touches is found again.

Of a splay tree `SearchTree` is not inductive, since there is no tree while a
splay runs.  `Opened` says of the three trees that each is a search tree, that
each part lies all on its side of the key that is looked for and of what is
still to be taken apart, and that the element at its end, where the next one
will hang, is the outermost of it.  A turn that links keeps this
(`LinkOpened`); the assembly makes one search tree of the three
(`AssembleSide`), on top of which is an element that no other separates from the
key (`Splayed`), which is what insertion and removal depend on.  `Removing` says
the same for the right side of an element that is taken out while the left side
is splayed, and `Walking` what `SPLAY_NEXT` has passed.  `Kept` says that a step
of a splay neither loses nor adds an element; from that comes the refinement.

Of a red-black tree the invariant has three parts.

* `Good`: the pointers.  It is `Linked` with the types and a parent for every
  node; rotations and splices keep it in every step, the middle of a fix-up
  included.
* `Walk`: what a call has passed.  Where a new leaf will hang is where its key
  belongs in the whole tree (`Placing`), what was passed on the way cannot be
  the answer (`Passed`, `Nearest`), the walk from an element to its neighbour has
  nothing between (`Stepping`), and no key equals that of an element that was
  taken out (`Gone`).
* `Colours`: there is a function `b` from nodes to numbers of black nodes that
  adds up at every node (`Level`), and no red node hangs from a red one (`Calm`).
  In the middle of a call it is off by exactly what the fix-up repairs: in an
  insertion the node that the loop is at may be red below red (`Ripe`); in a
  removal one side of one node lacks a black one (`Lacks`: `Level` with that
  place).  Each macro of the fix-ups has a lemma that moves or closes the gap.
  `Balanced` speaks of the number that a recursive function counts; that `b` is
  that function is shown at the least number where they would differ
  (`BlacksAre`), with `WFMin` of the library.

Only model-checked: the liveness properties `CloseCompletes`, `WatchdogFires`,
`HandshakeEnds`, `WriteEnds` and `CallsReturn` (ENABLED and fairness are out of
the prover's reach).  Every safety property and every refinement that a run
checks is proved.  The findings are counterexamples, and need no proof.  Neither checked nor proved:
that a red-black tree is at most `2 lg(n + 1)` high (`tree.h:54`), which follows
from `Balanced` by counting.

## Not modelled

* `log.c` (output; the level that is set is never read) and `error.c` (uses a
  type that is not defined and is not compiled).
* The lists of `queue.h` other than the part of SLIST that the pool uses, the
  `RBT_` declarations at the end of `tree.h` (no bodies) and the test framework
  `greatest.h`.
* The contents of buffers, and with them the bytes of the reply, and the address
  in a session: nothing branches on them.
* A listening socket is the environment of `Accept`: `bind` and `listen` change
  nothing in the struct of a socket, and `connection_cb` hands every connection
  to the user, who accepts it into memory of its own.

## Plan

Done: every component with logic of its own has a module, an abstract
specification that it is shown to implement, and proofs of every safety
property.  What would extend the project: the other lists of `queue.h`, should
the library begin to use them; the rest of `proxy_socket.c` when data can be
written through it (`Echo` stands for that).
