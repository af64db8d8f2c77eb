# TLA+ models of the chat room and of freec++

This directory specifies the concurrent and the persistent parts of the repository in
TLA+, checks them with TLC on small instances, and proves most of the safety that is checked, for
every value of the constants, with TLAPS. `PROJECT.json` is the index: components, runs,
theorems, the hazards the properties are for, and for every definition the source lines
it models.

The repository holds two programs and a library:

* **the chat room** (C, top directory): a server, `server_daemon.c` and what it calls, with
  one thread per client; a client, `client_daemon.c`; and a MySQL database that both use;
* **freec++** (C++): a library of files, logs, text, time, sockets and database wrappers,
  some programs on top of it, and a bank server that shows a pool of database connections.

## 1. Inventory

| component | state it keeps | operations | what is hard | what makes it correct |
|---|---|---|---|---|
| accept loop (`server_daemon.c`) | descriptors, one `USER_INFO_S` on its stack | accept, read the name, insert a node, start a thread | the record is shared with the new thread without waiting for it; numbers are reused at once; accept fails at the limit | each thread serves the client it was started for; a descriptor has one owner |
| client threads (`threadPool.c`) | name and descriptor copied from the record | read a message, dispatch, close, remove the node | interleaving with the accept loop and each other; a failed read ends the process | what was sent is handled in order; a client that leaves is forgotten |
| message handlers (`server_proc.c`) | pointers into the list | to one, to all, file, request, deletion | the list changes between the search and the write | a message has one outcome; answers go to the sender |
| list of users (`linklist.c`) | singly linked list, no lock | insert, remove by name, search | every pair of operations may interleave at every pointer | the list holds those who are logged in |
| tables (`server_mysql.c`, `mysql.c`) | `friends`, `message`, `users` in MySQL | store a text, fetch and clear, add and delete a friendship | several processes, several statements per operation, each of which may fail alone; fixed buffers for the SQL | stored texts are shown once; friendships are mutual |
| accounts (`client_daemon.c`, `mysql.c`, `client_send.c`) | table `users`: password and ban; who is logged in | register, log in, menu, dialogs, ban and release | every client checks the ban itself, once per dialog; fixed buffers for the SQL | who is banned opens no dialog for texts |
| client (`client_daemon.c`, `client_send.c`, `client_proc.c`) | menu flag, receive thread | menu, dialogs, receive, answer requests | two threads on one socket; the receive thread writes to the database; reads and writes of different lengths | requests agreed to are recorded; every read begins where a message does |
| file transfer (`client_file.c`) | file being sent, counter of pieces received | send a file in pieces, append a piece | one counter for the files of all senders; zeros; pieces that coalesce | files arrive whole, as often as they were sent |
| thread pool (`threadPool.c`, `thread.c`) | job queue, two mutexes, two conditions | add a job, take a job | two versions, with locks missing in one and never released in the other | jobs are taken in order and once; the first is run |
| bank server (`freec++/bank`) | five connections, a mutex each; open transactions | queries, open, deposit, withdraw, transfer | pool exhausted; the wrong connection is committed; check, then act; statements that wait for rows; commits that fail unnoticed | what is answered with 0 has happened, wholly; what is refused has not |
| framed TCP (`_public.cpp`) | bytes under way | TcpRead, TcpWrite, Readn, Writen | bytes arrive in any pieces; several threads on one connection; timeouts | messages arrive whole and in order |
| files and logs (`_public.cpp`) | temporary file, listed directory, log file | write and rename, list, read, remove, rotate | a crash between two steps; others change the directory | readers see whole files; no line of a log is lost |
| text and time helpers (`_public.cpp`) | none | trim, pad, split, match, pick, XML, format and add times | lengths, separators at the ends, buffers without a NUL | what a reference definition says |
| database wrappers (`_mysql.cpp`, `_ooci.cpp`, `_postgresql.cpp`) | connection and statement flags, handles | connect, prepare, bind, execute, next, commit, LOBs | order of calls; a link lost between two; one interface over three clients | return codes say what happened; no call on a handle that does not exist |
| loader, process control (`pspccfiles.cpp`, `procctl.cpp`) | files, table rows, child process | load a file and remove it, restart a child | a crash between commit and remove; incomplete files | every file is loaded, as a whole |
| FTP (`_ftp.cpp`) | temporary file | get, put: transfer, compare sizes, rename | broken transfers, files that grow | what has its final name is complete |

The components meet as follows. The accept loop and the client threads share the
descriptor table, the list and the stack record; the handlers run on the client threads and
use the list, the sockets and the database; the client uses the same database directly,
beside its socket. The bank server's threads share the connection pool and, through
it, transactions; bank and demonstration programs talk over framed TCP. The loader meets the
programs that write, receive and fetch files in a directory, and procctl.cpp when it ends;
it uses the text helpers and a database wrapper.

**Not modelled.** `ftplib.c` (third party) and the methods of `_ftp.cpp` that are one call of
it; the earlier versions of server and client that the makefile does not build (`server.c`,
`client.c`, `circleList.c`: what replaced them is modelled); terminal dialogs and printing; the
set-up of sockets and signals, CTimer, UTime, FileMTime, IsASCII; the demonstration programs that are one call each;
`destroyThreadPools`, `destoryList` and `showList`, which nothing calls; the rows of `msgid_8`
and `MAINEXIT` of the bank server; bindout and the conversion of values in the database
wrappers. Every part is listed in `PROJECT.json` with its reason.

## 2. Modules

| module | models | abstract specification |
|---|---|---|
| `ChatServer` | accept loop, client threads, handlers of the chat server | |
| `ChatServerProofs` | theorems about it | |
| `UserList` | the list of users, one pointer access at a time | `UserTable` |
| `UserListProofs` | theorems about it, and about `ThreadPool` | |
| `Mailbox` | the tables of stored texts and of friends, and the client, receive thread and server threads that use them | |
| `MailboxProofs` | theorems about it | |
| `ChatFraming` | bytes on the connections of the chat, files in pieces | |
| `ChatFramingProofs` | theorems about it | |
| `BankServer` | threads, pool, transactions of the bank server | `Ledger` |
| `BankServerProofs` | theorems about it | |
| `FramedTcp` | TcpWrite/TcpRead between two processes | `Channel` |
| `FramedTcpProofs` | theorems about it | |
| `Accounts` | users, passwords and bans; registration, login, menu and dialogs of the client | |
| `AccountsProofs` | a theorem about it | |
| `ThreadPool` | the job queue of `threadPool.c` and of `thread.c` | |
| `DbSession` | connection and sqlstatement of the three database wrappers | |
| `DbSessionProofs` | theorems about it, and about `Loader` | |
| `Lob` | files in and out of LOBs, piece by piece (operators) | `LobExact` in the module |
| `Loader` | files on their way into a table: writers, CFile, CDir, Cftp, pspccfiles, procctl | |
| `Text` | helpers of `_public.cpp` (operators) | reference definitions in the module |
| `MC...` | instances of them for TLC: users, accounts, threads as model values | |

Definitions whose name ends in `_Something` and whose comment begins with "Mutant" are
wrong versions of the definition that follows. They are used by no run; each serves to show
that some property would notice such a mistake in the code (`PROJECT.json`, "mutants").

### ChatServer

Connections are numbered in the order accept() returns them. `apc` and `accepted` are the
position of `acceptClientConnect` and its current connection; `slotName` and `slotFd` are
the two fields of `stUserInfo`; `wpc`, `nm`, `wfd`, `job` and `cur` are the position and the
locals of each `procClientRequest` and of the handler it runs. `sock` is the descriptor
table of the process, `online` the nodes of `g_pList`. Values that come from a
connection (its name, its descriptor number) are represented by the connection, so a mix-up
shows as a wrong number, and 0 is junk.

* The record lives in a stack frame that is dead when the thread reads it. As long as
  only the accept loop runs on that stack, its fields change where the next call of
  `acceptClientConnect` writes them; the two `perror()` calls after a failed accept can
  overwrite them (`AcceptFails`).
* `CloseFd` and `DelNode` are two steps, in the order of the code: in between the number
  may belong to the next client while the old node is still found.
* A node that was removed is freed memory: who still has a pointer to it sees its old
  contents or those of a newer node (`Seen`), and goes on to an older node or to
  the end (`NextNodes`).
* `WriteTo` is write() on a socket: lost on a closed number, delivered, answered by a reset
  if the peer is gone, and after that a possible SIGPIPE, which nothing handles. A failed
  read ends the process (`handle_error`).
* One read() is one message: what happens if messages coalesce, or are a byte short, is the
  subject of `ChatFraming`. `ClientSend` waits until the name was read.
* `WalkNode` checks the friendship, writes and advances in one step. Searches, insertions
  and removals are single steps here; `UserList` splits them.

Not in the model: failure of pthread_create(), the epoll event whose address is kept after
its function returned, torn copies of a name, a write() that blocks because a client does
not read. `Friends` is a constant here and a table in `Mailbox`.

### UserList

Cells of memory with a `next` pointer and the client they were filled for; `Malloc`,
`SetNext`, `SetHead` are insertNode, and `Begin...`, `Differs`, `Advance`, `EndFind`,
`ReadRest`, `Unlink`, `Free` are the two loops and the removal. free() destroys the name in
the cell and leaves its pointer; free() of a free cell aborts. `overlap` records whether a
removal ever ran at the same time as another operation: that is what the good
properties exclude, and it is all they exclude: insertions and searches may overlap.

### Mailbox

A session is a run of the client. Its main thread fetches and clears the stored texts
(`Select`, `Delete`: two statements) whenever it gets to the top of the menu loop without
having made a valid choice; its receive thread shows texts and answers requests, for which
it inserts the two rows of a friendship; the server's thread of the session checks, stores,
writes, deletes. The ban and the dialogs are in `Accounts`. Answers to a request come back as the
request itself, addressed to its sender. The table of friends is a set of rows: that a pair which
agrees twice has its rows twice is not modelled.

* The length of a statement decides whether it fits the buffer it is formatted into (`MailFits`,
  `FriendFits`, `UserFits`); one that does not is cut and fails.
* Each of the two statements of a friendship may be refused by the database while the other is not
  (`Refused`): the code prints a line and goes on, and the receive thread answers that its user
  agreed. The pair is in `refused` then. A text may be refused as well (`Store`).
* In `FetchFails` the SELECT or the DELETE of a client fails. After a SELECT that failed, the code goes on
  to the DELETE with a handle it has closed, and closes it again, which is undefined behaviour: here the client either
  gets to its menu with nothing deleted, or ends (`Leave`). When `mysql_store_result` returns NULL, nothing is
  printed and the rows are deleted all the same; those texts are `settled` no longer. `unfetched` are the sessions of which
  a fetch failed.
* `ServerDown` is `handle_error` in the server: a query that does not fit (a request to a
  name of 25 characters or more) or any call that fails where a thread reads, asks or connects ends it with all its threads. The
  server that is started anew has an empty list, and the clients there are have no connection to it.
* All failures that are not a matter of length are counted in `faults` and bounded by `MaxFault`.

### ChatFraming

A connection is a queue of bytes in each direction (`up`, `down`); a byte is a message and a
position in it. `ClientWrites` and `ServerWrites` append what the code writes, `ServerReads`
and `ClientReads` take what read() returns: all there is, up to the size asked for. The sizes
are those of the code: a structure is head, body and one byte; `sendMsg2All` leaves the byte
out; the server asks for a structure, the client for head and body. So after a piece of a
file the client either finds the last byte alone, and shows it as an empty text, or
takes it for the beginning of the next message, and never finds its place again.

`put` is the loop of `doSendFile`, `packets` the counter of the receive thread, `disk` the files
of the receiver, `Written` what is appended (`IsLast`: all of the body, or up to the first 0).
The head counts as one byte and MAX_WORD_LEN is a constant, 2 in the run. A byte of a file is its
file and position, so that a loss, a repetition or a mix-up shows; zeros are all alike.

* What begins in the middle of a message has no type. The server calls a function from
  beyond its table, so it may end or not (`srv`); the client shows it as a text. That four
  bytes of a file read as one of the two types the client handles otherwise is left out.
* read() is not cut: server and clients talk over 127.0.0.1, where what one write() sends
  is received as a whole.
* Requests and deletions of friends are in `Mailbox`; here only texts and files are sent.
* Users do not leave, and do not send files to themselves; the list walk is one step
  (`ChatServer` has the list and the descriptors). The name
  that is written at login, and may coalesce with the first message, is not modelled.
* `joined` records that a read returned bytes of two messages, `mixed` the users to whom
  two sent files at the same time, or pieces of whose files were dropped on the way.

### BankServer

The pool, the mutexes (`TryLock`, one after the other, `Busy`, `Unlock`) and each statement
of a request. The database is external: what a connection did is visible to others, and its
row locks are released, when it commits or rolls back; a statement that closes a cycle of
waiting fails (`Deadlocked`). `CommitConn` is the line to look at: withdrawals and
transfers commit `conn`, the first connection of the pool, whatever connection they were
done on. The code looks at the result of no commit and no rollback:

* `CommitFails`: the database rolls back, and the client is answered ok all the same. Requests of which
  statements were rolled back in this way are in `unkept`.
* `LinkLost`: the link of a connection is lost at any time. Its transaction is rolled back, every statement on
  it fails from then on, and its commits fail; it stays in the pool, since nothing connects it again.
  Failed commits and lost links are bounded by `MaxFault`.
* The amount is taken from the message as it is, so `Amounts` may hold any integers. A withdrawal of a
  negative amount pays in, and a deposit of one takes out without a look at the balance.
* A query fails for reasons of its own too (`Query`), and so does every statement (`Fails`).

Not in the model: MAINEXIT, which ends the process; the rows of `T_JYLOG`, which go with those of the accounts.

### FramedTcp

Bytes are pairs of message and position. `Send` and `Recv` move any number of bytes; the
connection may be closed (a writer exits), reset, or fall silent. The writers are the two
threads of `demo23.cpp`; the reader is `CTcpClient::Read` with a timeout, which may be
called again after one. The programs of the repository give up instead, which is the
other choice of `SelectTimeOut`.

### Accounts

Table `users` is `password` (its domain are the rows) and `banned`. A session is one run of the
client: `cpc` is where it is, from the first question to a dialog of the menu. Every client
reads and writes the table itself; nobody but the client of a banned user enforces the ban.

* `IsBan` formats its query into 64 bytes: it fits names of up to 13 characters (`SelectFits`),
  and a longer one fails and ends the program. `banOne` has room for 17 (`UpdateFits`), so who can send
  can be banned, and a user with a longer name can neither send nor be banned.
* `IsBan` gives atoi one character without a NUL, so a 0 may be followed by digits that happen to
  be behind it and a user may seem to be banned. `IsBan(n)` is the set of what it may answer.
* Passwords of 20 characters and more are cut by `getPassword`, their rest is the next answer
  (`ReadWhole`): who has chosen one cannot confirm it.
* `Choose` and `Close` stand for the dialogs whose effect is elsewhere (`Mailbox`, `ChatFraming`).

### ThreadPool

`version` says which of the two is run. The words of the queue (`queue_num`, `queue_head`,
`queue_tail`, and `link` for the field `next`) are read and written in separate steps where no lock protects them. In
`threadPool.c` a worker takes `mutex` and unlocks `queue_mutex`: after the first job nobody gets
`mutex` again, which is why the properties promise one job and not all. A main thread that finds
the queue full waits for a copy of its length to change, for ever. In `thread.c` the
main thread takes no lock, and a worker may take a job whose `link` is not written yet:
`JobsInOrder` says what holds all the same. Destruction of the pool is never called.

### DbSession and Lob

A program is linked with one of three libraries (`drv`) and calls the methods of one connection
and two statements in any order; the server may lose the link or refuse a statement or a COMMIT. `ret`
is the last return code, `dead` says that a handle was used that does not exist (in the code
undefined behaviour; the behaviour ends). `seen` records what the program was told: rows owed a
commit, rows told, rows undone. What the three do differently is in operators that begin with
`My_`, `Oci_` and `Pg_`. Parameters are numbers and rows are numbered as inserted;
output buffers and error texts are left out. So is the case in `err_report` of the Oracle library that OCI has
no record of the error, in which a call that failed returns 0: here a failed call returns something else.

`Lob` has the loops of `filetolob` and `lobtofile` as functions of what their variables hold when a turn
begins (`nextpieces`, `readpieces`): the position, what remains, the number of the turn. A piece is read from
the file and given to OCILobWrite, or taken from OCILobRead and written, and at any turn one thing may go
wrong (`Mishaps`): the file does not give its bytes, the disk takes no more, the length of the LOB is not told,
OCI returns `OCI_ERROR`, or another result without a record of the error. Here the 0 of `err_report` is in the model, and
`LobExact` says what a return code of 0 is worth: `filetolob` returns 0 without having written all after such another result,
`lobtofile` also when reading fails after the first piece, when writing fails, or when the length is not
told. A character of a CLOB is one byte, as in a single-byte character set.

### Loader and Text

A file is a sequence of lines of six kinds; `disk`, `tmp` and `remote` say how many of
them are under its name, under its temporary name, and on an FTP server. Writers are
programs with CFile (`OpenForRename`, `Fprintf`, `CloseAndRename`), the receiver of
`demo14.cpp`, `Cftp::get` and `Cftp::put`. The loader's steps are its calls: `OpenDir`, `ReadDir`,
`CheckFileEnd`, the two loops, `Insert`, `Commit`, `CloseAndRemove`; `Crash` is possible before
each and `Start` is procctl.cpp, which starts it again.

* `Cftp::get` compares sizes only if `bCheckSize` is FALSE (`_ftp.cpp` 92), although `_ftp.h` 87 says
  that this is what the flag asks for; `Cftp::put` asks for the size of the final name before it
  has renamed to it (197). So both can rename a part of a file, or refuse a whole one. The mark at
  the end, which the loader looks for, is what `LoadExact` rests on. `LoaderConstants` therefore says
  that the mark is the last line of a complete file, as in all files of `freec++/data`: a part that
  ends in a mark from the middle would be loaded as the whole.
* The result of `commit` is not looked at (`refused`), and the file is removed after it (`again`).

`Text` has the helpers as operators on sequences of characters. A buffer keeps behind a value
that is cut what it held before; functions for which that matters take its old content. Each is
compared with a reference definition for all strings up to `MaxText` characters of an alphabet of those it
treats differently; exceptions the code makes are named in the comments of the properties.
`LogOpen`, `LogWrite` and `WriteEx` are CLogFile in one process, as a function of what was
logged before; `MKDIR` and `FOPEN` have a tree of directories. `HelpersExact` of the run is
`TextExact` in the states in which the loader uses them, as `LobsKept` is `LobExact` with the Oracle library.

## 3. Runs

Every run ends on its own (bounds are CONSTANTS and appear as guards). Deadlock checking is
off everywhere because an instance may stop: clients send a bounded number
of messages, the chat server may exit, a statement or a worker may wait for ever.

| run | checks | instance |
|---|---|---|
| `chat_route` | `TypeOK`, `HandoffOrder`, `FdOwnership`, `ReplyToSender`, `SenderOrder`, `OneFate`, `ToReceiver` | 2 connections of 2 descriptors, a third client that accept fails for, 2 messages of the kinds one, all, file; symmetry of the two names |
| `chat_live` | `LeaverForgotten`, `InboxRead` | 2 connections, 1 message, fair threads |
| `list_race` | `ListIntact`, `SearchExact`, `ImplementsTable` | 3 clients of 2 names, 3 cells, all interleavings |
| `mail` | `SettledMailKept`, `FriendsMutual`, `AgreedAreFriends`, `MailShown` | 2 sessions, 2 messages: texts, requests or deletions, two strangers, of which one has a name too long for the query of the users; names of the others as long as fits the statements; 1 call that fails |
| `chat_files` | `FilesExact`, `Aligned`, `TextsKept` | 3 users, 2 texts or files; a text of 2 pieces, an image that fills its 2 pieces and holds a 0, a text that ends in exit |
| `chat_ban` | `BanHolds` | 3 runs of the client, 3 names (of 5, 13 and 18 characters), 3 passwords (of 5, 6 and 20), 2 changes of a ban, 1 text |
| `bank_pool` | `UnderMutex`, `IdleTrans`, `TransferWhole`, `RefusedNoTrace`, `DepositKept`, `FirstIsExact`, `ImplementsLedger` | 3 clients on 2 connections, so that the pool is exhausted, 2 accounts of which one is yet to be opened, 3 requests of all kinds, of amounts 1 and -1, 1 failed commit or lost link; symmetry of the clients |
| `bank_lost` | `AnsweredIsKept`, violated | 2 clients, 2 withdrawals, nothing fails |
| `tcp_order` | `ReadAligned`, `ImplementsChannel`, `Delivered` | 2 threads, 3 messages (empty, of 2 bytes, or one too long), headers of 2 bytes, fair |
| `db_calls` | `TxnExact`, `FetchExact`, `BindExact`, `HandlesLive`, `LobsKept` | 3 libraries, a statement that inserts and one that queries, 2 rows, 1 fault, 2 bindings; files of up to 10 bytes in pieces of 3, one mishap at any turn |
| `load` | `LoadExact`, `AllLoaded`, `HelpersExact` | 3 files (written or put, received, fetched) of up to 8 lines, of which one may have no head or a blank line; 1 kill, 1 fault; strings of up to 5 characters |
| `pool_jobs` | `JobsInOrder`, `FirstJobRuns` | 2 workers, 3 jobs, a queue of 2, both versions |

Every module's type invariant is checked: where `TypeOK` is not in the table, it is a conjunct of
another property (`ListIntact`, `SettledMailKept`, `Aligned`, `BanHolds`, `FirstIsExact`, `ReadAligned`,
`TxnExact`, `LoadExact`, `JobsInOrder`; of the last two it is called `LoadTypeOK` and `PoolTypeOK`, since
their modules are extended together with another one where theorems are proved about both). So is `BytesInOrder`, of `FilesExact`.

Why the bounds are enough to be of use: the races of the hand-over need a client whose
thread is late, one that comes after it, and one that accept fails for (2 connections, `MaxTry` = 3),
messages that go astray need a number or a node that a second client gets, a lost or dangling node needs two operations and a third
node, the window of the stored texts needs a reader and two writers, a file that is mixed with
another needs two senders and two pieces, the wrong commit needs
a second connection, and an exhausted pool one client more than connections. Two
bytes are the least that a header or a text can be cut in. A ban can be set, lifted
and set again around one dialog with two changes and one text, since texts do not influence each
other; a fault and a kill each happen at every step of the loader. A queue of two with three jobs
is full once. One failed call of `Mailbox` or of the bank can come at every place, before and after everything another
thread does. Pieces of 3 bytes and files up to 10 give a file below, at and above the
buffer and each multiple of it.

`bank_pool` is cut down in two ways, in `MCBankServer`. `MCView` tells states apart by what steps and properties
depend on: of a request that was answered only the answer counts, of a refused one that left nothing not even that, of a
committed statement which part of its request it is, and whether a negative amount was
paid in on its account. Every property of the run is a function of the view, or of the view before and after a step, and
so is what a thread may do next. The constraint
`MCFew` leaves out what follows when a client hangs up (it can just as well send nothing more), more than two
threads at work after a failure or with a negative amount, and negative amounts after a failure. The first leaves out nothing that could happen otherwise; the other two are bounds, and the
theorems of section 4 have none of them. The view of `mail`, in `MCMailbox`, only leaves out what the
server's threads hold of messages they are done with; no step looks at it and no property, `MailShown` included, so the steps
of states with the same view have the same views.

**Properties under a condition.** Several good properties of `ChatServer` begin with `Clean`
(every thread has so far copied its record in time), those of `UserList` with `~overlap`,
`FilesExact` with `~joined` and for the users not in `mixed`, the last part of `TextsKept` for
users who got nothing longer than they read, or without `joined`, and `FirstIsExact` and `ImplementsLedger` of
`BankServer` with `OnFirst` (no request was processed off the first connection).
`SettledMailKept` speaks of texts that were not stored between the SELECT and the DELETE of a
client, nor read by one that they did not reach; `FriendsMutual` and `AgreedAreFriends` of pairs that are not in
`Spoilt`; and `DepositKept` and `FirstIsExact` tell requests in `unkept` from the others. The code does not guarantee these conditions. They separate what one mistake breaks
from everything else, which is then shown to hold: in the same runs, with all interleavings.

* Without `Clean` a thread can take the name of one client and the descriptor of another from
  the record.
* Without `~overlap` an insertion during a removal at the front of the list loses the new
  node, or links freed memory.
* Without `~joined` the last byte of one piece of a file is taken for the beginning of the next,
  and what follows is lost. A user in `mixed` can have the last piece of one file cut or padded by
  the count of another.
* A text stored between the SELECT and the DELETE is deleted unseen, and so are texts whose rows
  `mysql_store_result` does not deliver. `MailShown` also leaves out sessions in `unfetched`, which failed to fetch.
* A pair in `Spoilt` may have one row of two, or have agreed without a row: two parties changed it at the
  same time, a process ended between its two statements (`raced`), or the database refused one of the two (`refused`).
* A request in `unkept` was answered ok and is not committed. `DepositKept` says that these are all of
  the deposits and new accounts for which this is so.
* `TxnExact` leaves out the rows in `seen.lost`, which only the PostgreSQL library has, and
  `BindExact` speaks of parameters bound once each, in order, before the first execute; `HandlesLive` names the ways to a handle that does not exist: there are no others.
* `LoadExact` leaves out files whose commit was refused, and counts those left behind after it;
  `AllLoaded` supposes that no file stays in the way for ever.
* Without `OnFirst` two withdrawals on two connections read the same balance and are both paid.

**Fairness.** `chat_live` assumes weak fairness of each client thread: the system schedules
threads that can run, and read() returns when there is something to read. There is no
fairness for the read of a name, since a client that stays silent blocks the accept loop;
the liveness properties speak of clients that have a thread. For `MailShown`,
`mail` assumes that a client that was started runs up to its menu. `load` assumes that
procctl.cpp starts the loader again (it waits for its end in a loop) and that the loader, once
it runs, goes on; writers may stop anywhere. `pool_jobs` assumes that threads that can run do,
and strong fairness of `Lock`: a worker that waits for a mutex which is released again and again
gets it, as the kernel wakes those that wait; calls of `addRequest2JobQueue` are not fair, only
what follows once one has begun. `tcp_order` assumes fair writers and a fair reader, and nothing of timeouts.

**Found.** The violated run is recorded under "findings", with the line of a comment
that says otherwise: withdrawals answered with success and not
committed, because another connection is. That a file can be written to another client than its
receiver, because the descriptor is closed before the node is removed, or the node's memory is
used again, is what `ToReceiver` names as the only ways for it.

## 4. Proofs

The safety invariants of the runs, but for those listed at the end of this section, are theorems for every
value of the constants, and so are the three refinements. None of them is inductive as it stands. For
each module a strengthening is proved to hold initially and to be kept by every step; it implies
the properties. What the strengthenings say is the argument why the code is right where it is:

`ChatServerProofs`, for any number of connections, descriptors, messages and names:

* `ChatTypes`: `Spec => []TypeOK`. `TypeOK` alone is not inductive: a handler appends its
  message to a history, so it must have one, and the accept loop writes at
  `accepted`, which must be a connection. `TypeInv` adds both.
* `ChatHandoff`: `Spec => []HandoffOrder`. The invariant relates three things by the position
  of the accept loop: which threads exist (`SpawnInv`: those up to the last connection whose
  record was filled), what the record holds (`SlotInv`: the last connection or the one
  before it, or junk after a failed accept), and what threads copied from it (`HandoffInv`).
  A thread that copies late copies what is in the record then, never something older
  than its own connection; the name is copied first, so the descriptor can be ahead of it but
  at most one behind.
* `ChatFdOwnership`: `Spec => []FdOwnership`. `TableInv` says that descriptor table and `num`
  agree for every connection whose thread has not closed it. What makes it inductive is
  that `Clean`, once false, stays false (`CleanBefore`): if the record was copied
  properly by all so far, then a thread at `close` closes its own number, and no other.
* `ChatOneFate`: `Spec => []OneFate`, from `FateInv`: a message is in one place at a time.
  What waits is nowhere else, what a thread handles was received already only if it is for all, what was
  received is not stored, and twice received only if it is for all. Numbers of messages are given
  out in order (`Numbered`), so a new one is nowhere yet. The hand-over plays no part.
* `ChatReplies`, `ChatSenderOrder`: `Spec => []ReplyToSender`, `Spec => []SenderOrder`, from
  `DeliveryInv`. Under `Clean` a thread handles messages of its own client, the oldest first
  (`OwnJobs`), and what others received of a client is older than what it still has to be handled (`GotBefore`).
* `ChatToReceiver`: `Spec => []ToReceiver`, from `RosterAll`: a connection has one name for ever
  (`NamedOnce`); one that is not listed any more was removed by a thread of its name (`ListInv`);
  and the node that a handler is about to write to was found under the name of the receiver
  (`SendTo`). What is left between the search and the write is what the property names.

`BankServerProofs`, for any number of clients, connections, accounts and requests:

* `BankPool`: `Spec => UnderMutex`, `BankIdle`: `Spec => []IdleTrans`, `BankRefused`:
  `Spec => []RefusedNoTrace`, `BankTransfers`: `Spec => []TransferWhole` and `BankDeposits`:
  `Spec => []DepositKept`.
* `UnderMutex` says that a transaction is added to, or ended, by the thread that has the mutex of its connection, by a lost link, or by
  the commit of a withdrawal or a transfer, which is that of the first connection whoever has its mutex. It
  rests on `HoldsMutex`: who is past `TryLock` has the mutex of the connection it works on.
* The others follow from one inductive invariant, `BankInv`. None of them
  is inductive, because a thread may commit what other threads left on a connection:
  the invariant must say what can be left. `Requests` says that a request has one thread, has
  no answer before its last step and is processed on the connection `via` remembers.
  `Transactions` says that each statement of an open transaction is of a request of that
  connection which is being processed, or was answered ok off the first connection. With
  `HoldsMutex` the first case means the thread that holds the mutex (`OneAtATime`), so
  whoever commits commits answered requests and his own. `Halves` says the same of
  transfers: an answered one is in the transaction with both statements. `Deposits` says that
  the statement of a request that is about to be committed is in the transaction, was
  committed by a thread that works elsewhere (only the first connection is), or was rolled back by a commit that failed or
  a lost link, and is in `unkept`. That what is in `unkept` is neither open nor committed
  (`Apart`, in `Once`) holds because the statement is the only one of its request, and because a connection whose link is lost has no
  transaction any more (`Dropped`).
* `Steps` rewrites each step of a thread as one of twelve kinds, by what it changes, so
  that each lemma has one step per kind.
* `BankFirst`: `Spec => []FirstIsExact`, which has the types of all variables among its parts, and `BankLedger`:
  `Spec => ImplementsLedger`. Both need `ExactInv`. While `OnFirst` holds, one thread works at a time,
  and `Stage` says by its position what the open transaction is: nothing, or the
  statements of its request so far, and that the account it takes from was found covered
  and has not changed since; all this until the link of the first connection is lost, after which nothing is
  committed on it. So a commit adds to the balances what the abstract bank adds in one
  step, and a rollback, wanted or not, nothing. An account below zero has been paid a negative amount
  (`CoveredOrDrained`). What a commit adds is a sum over the transaction, a recursive function
  on the numbers: that it is defined, and an integer, is shown for a least number for which it would not be
  (`Least`, `SumsExist`, `SumsUnique`, `PendingSums`).

`UserListProofs`, for any number of clients, names and cells:

* `ListIsIntact`: `Spec => []ListIntact`, `SearchIsExact`: `Spec => []SearchExact`, `ListIsTable`:
  `Spec => ImplementsTable`, from `ListInv`. While no removal has overlapped, there is a function
  from numbers to nodes that the pointers follow (`Chain`): the last node has number 1 and a
  node keeps its number when another is put in front, so that a walker's place is a number (`Place`). A search has
  passed no node of its name that was there when it began; a removal has passed all in front,
  knows its predecessor, and is alone (`Solo`). The nodes are the cells in use but for the one that is being
  filled and the one that is about to be freed (`Holds`).
* That `Listed`, a recursive function in the model, is that chain read from the front, is shown for a least
  counterexample (`ListedChain`); that a chain has no more nodes than cells by counting (`Pigeons`). Then
  `SetHead` is the step of the table that puts an entry in front, `Unlink` the one that takes
  an entry out, and every other step leaves the table alone.
* `PoolJobs`, of `ThreadPool`, for any number of workers, jobs and places in the queue and both versions:
  `PoolSpec => []JobsInOrder`, from `PoolInv`. `MutexInv` says who can be between two steps, and for
  `threadPool.c` that nobody is who has not the lock. `LinkInv`: whatever the threads do to each other,
  a pointer leads from an older job to a newer one that was added already (`Newest`). `OrderInv`: the head
  of the queue is newer than all jobs that were taken, but while a worker is taking one. `QueueInv`: until the first job of
  `threadPool.c` is taken, the pointers from head to tail and the counter are the jobs that were
  added (`Linked`, `Whole`), but for the one that is being added (`Busy`). That `Queued`, a recursive function in
  the model, is these jobs is shown for a least counterexample (`QueuedJobs`).

`MailboxProofs`, for any users, strangers, lengths of names and texts, sessions and messages:

* `FriendsStayMutual`: `Spec => []FriendsMutual`, `AgreedStayFriends`: `Spec => []AgreedAreFriends`,
  from `PairInv`. Rows come and go in pairs of statements, so the invariant says what is there
  between the two: after the first insert its row (`AddHalf`), after the first delete
  no row and no agreement (`DeleteHalf`); unless another party changed the pair meanwhile, which puts it in `raced`,
  or the database refused the statement, which puts it in `refused`. `Mutual` allows half a pair only to who is between its two statements. `Routed` says
  that requests come to the session of the user they are for.
* `SettledMailIsKept`: `Spec => []SettledMailKept`, from `TextInv`: a text is in one place (`Alone`): sent, with
  a thread of the server, written to a client, or in the table; a row that was shown is about to be deleted,
  by who showed it (`ShownRows`); a settled text was shown or is in the table, and not
  among what somebody deletes (`Safe`); texts whose rows do not reach a client are settled no longer. Who could not delete
  what it has shown is in `unfetched`, and may show it again (`Once`).

`FramedTcpProofs`, for any threads, lengths of header and buffer, and messages:

* `TcpAligned`: `Spec => []ReadAligned`, `TcpChannel`: `Spec => ImplementsChannel`, from `StreamInv`:
  what is under way is one stream (`Stream`) in which each byte is followed by the next of its
  message, or by the first of the next message; it begins with the byte the reader expects
  (`Front`) and, while the connection is up, ends where the thread that has the mutex goes on (`Back`). `Writing` says that
  only that thread sends. When the connection breaks, the stream only gets shorter at its end. A
  thread that has got a message whole has therefore got what was written as that message.

`ChatFramingProofs`, for any users, files, sizes and lengths:

* `FramingAligned`: `Spec => []Aligned`, from `FrameInv`: where only whole structures were
  written, what is under way is a sequence of whole messages (`Frames`), of the server's length or of the
  client's.
* `FramingTexts`: `Spec => []TextsKept`. `OriginInv` says that a client writes in its own name.
  `OrderInv` orders the texts and pieces of a sender along the way: shown, on its way down, on its way up
  (`Before`, `Ordered`, `Ahead`). `DueInv` says that the texts owed to a user are the ones shown and the
  ones whose first byte is still to be read.
* `FramingBytes`: `Spec => []BytesInOrder`, the part of `FilesExact` that needs no condition on the
  reads. `SoleInv` says that a file that was sent to a user once has one sender, `PutInv` that what it is still
  to send is behind all that is under way, and `DiskInv` that what can still reach the receiver, whatever a
  read makes of it, is behind what was written.
* `FramingFiles`: `Spec => []FilesExact`, that files arrive whole. The receiver has only a count of pieces
  to go by, so `WholeInv` relates four things for every user whose files were sent one at a time
  (`Whole`): the pieces that are to come (`ToCome`: still to be sent, on the way up or down), the count, the disk and
  the number of times each file was sent. `Chain` says that the pieces come from one sender, that a file of
  which a piece is to come is to come as far as its end, that only the first file may have begun, and that the count
  fits the first piece. `Received` says that the disk holds a copy for each time the file was
  sent, but for those of which a piece is to come, and of the one that has begun what is in front of that
  piece. The order of `OrderInv` and `PutInv` makes the piece that is read the first of those to come. The byte at place
  `i` is reached by quotient and remainder (`Place`), since no induction over copies can be used.

`DbSessionProofs`, for each library, any number of statements, rows, faults and bindings:

* `DbTxn`: `Spec => []TxnExact`, `DbFetch`: `Spec => []FetchExact`, `DbBind`: `Spec => []BindExact`, `DbHandles`:
  `Spec => []HandlesLive`, from `SessionInv`. `TxnInv` places each row the program was told of: rows owed a commit are in
  the open transaction as long as the server can be reached and nothing failed, rows told are in the table, rows
  undone in neither. `Counted` says of a statement that what was fetched and what is left make up the result,
  `BoundOnce` that the first execute froze the parameters, `HandleInv` which fault or call each handle that does
  not exist goes back to.
* `LoaderExact`, of `Loader`, for any files, contents, ways of writing and numbers of kills and
  faults: `LoadSpec => []LoadExact`, from `LoaderInv`. `WritersInv` says what a writer at each place
  has left under which name, and that nobody writes a file that is complete. `ReadingInv`: the file the loader has begun
  ends in the mark, so it is whole (`Complete`), and the open transaction holds only rows of it in front of the place
  the loader has read to. `Walk`: in a file that is well formed as many rows as the loader still counts come next, and
  as many stations behind them (`Stations`), so it meets no line it cannot take, and while the database is linked every row it has passed is in
  the transaction. `TableInv`: the table has the rows of the files that were committed and
  removed, and those of each file that was left behind, once more for every time it was (`Kept`).

`AccountsProofs`, for any names, passwords, and numbers of clients and bans:

* `AccountsBan`: `Spec => []BanHolds`. A text is judged by the ban of its sender when it is sent and
  by when the dialog was opened, so the invariant, `AccountsInv`, has to say of every open dialog what
  `BanHolds` says of texts: `DialogsOpen` (the name fits the query, and a ban of the user
  is younger than the dialog). `Clocks` (no dialog is younger than the last change of a ban) keeps it
  when a ban is set, `LoggedIn` when a user registers: a new row is of nobody who has a
  dialog open.

**Assumptions.** The only ones are those on the constants, stated in the modules: `ChatConstants`, `BankConstants`,
`UserListConstants`, `MailboxConstants`, `FramedConstants`, `FramingConstants`, `DbAssumption`,
`AccountsConstants`, `LoaderConstants` and `PoolConstants`. They say of what type the constants are, that `Nobody` is no thread, `NoName` no
name and strangers are no users, that friends are mutual at first (`Mailbox`), that names have from 1 to 31
characters and texts less than 255 (the arrays of the code), that a length fits its header
(`FramedTcp`), and that the mark at the end of a file is its last line (`Loader`). TLC evaluates them in every run of these modules.

**Only model-checked.**

* Liveness (`LeaverForgotten`, `InboxRead`, `MailShown`, `Delivered`, `AllLoaded`, `FirstJobRuns`) is
  out of the prover's reach.
* `HelpersExact` and `LobsKept`: `Text` has RECURSIVE operators, for which there is no
  prover; the loops of `Lob` are compared with their definitions up to a bound.

Induction principles cannot be used, since they have an operator as a parameter; what is proved about
the recursive functions of `BankServer`, `UserList` and `ThreadPool` is proved for a least counterexample instead.

## 5. Plan

Done: `ChatServer`, `Mailbox`, `UserList` with `UserTable`, `BankServer` with `Ledger`, `FramedTcp`
with `Channel`, `ChatFraming`, `Accounts`, `ThreadPool`, `DbSession`, `Lob`, `Loader`, `Text`, and
the proofs of section 4. In the order of importance, what is left:

1. `ChatFraming`: the name that coalesces with the first message.
2. `ChatServer`: failure of pthread_create, and the epoll event whose address is kept.
3. `Text`: CLogFile with several processes on one file, which `_public.cpp` 580 asks not to do.
4. `BankServer`: MAINEXIT, whose signal handler destroys mutexes other threads use.
