# A TLA+ verification of iago

iago runs tasks on groups of remote hosts over SSH. This directory holds TLA+
models of its Go code, the TLC configurations that check them, and theorems
about them that TLAPS checks. Paths below are relative to the repository.

## 1. Inventory

| Component | Code | State | Operations | Hard behaviours |
|---|---|---|---|---|
| Group dialing | `ssh.go:179-454` `NewSSHGroup`, `groupDialer` | `jumpClients`, `jumpErrs`, `hosts`, `dialErrs`; `results`, `jobs`, `abort` of one `dialAll` | `prepareJumps`, `jumpFor`, `dialAll`, `collect`, `firstDialError`, `allFailedError`, `group`, `closeOnError` | a worker pool over an unbuffered channel, an abort channel raced by a `select`, jump connections shared by the targets, ownership that moves to the caller or is closed |
| Host construction | `ssh.go:37-123`, `477-518` `DialSSH`, `dialTarget`, `dialViaProxy`, `newHostFromClient`, `fetchEnv` | the connection's client, agent connection, SFTP client, keepalive loop | connect, handshake, set up | one step of several failing with the others already open |
| Runs over a group | `iago.go:159-294` `Group.Run`, `Collect`, `Errors` | the task goroutines, the `errors` channel, the context, `results`, `errs` | `Run`, `Collect`, `Handle`, `Err` | N senders on one unbuffered channel, handlers that panic, collectors shared by concurrent runs |
| Host lifetime and keepalive | `ssh.go:125-170`, `607-621`, `iago.go:229-247` | `done`, the ticker, the client, `sharedClosers` | `startKeepAlive`, `keepAliveLoop`, `sshHost.Close`, `Group.Close` | a ping in flight while the host is closed, two closers of one client, hosts closed concurrently and jumps after them |
| Shell commands | `cmd.go:24-100`, `ssh.go:632-690` | the session, one goroutine per pipe, `errChan` | `Shell.Apply`, `pipe`, `sshCmd.RunContext`, `Run`, `Start`, `Wait` | pipes drained after the command, cancellation against completion, goroutines blocked on an unbuffered channel |
| Execute | `ssh.go:542-568` | the session, the shared `err` | `sshHost.Execute` | two goroutines write `err` without synchronisation |
| Agent forwarding | `ssh.go:570-605` | `agentFwdOnce` | `requestAgentForwarding` | first session only, concurrent first sessions, a denied request |
| Remote file system | `sftpfs/sftpfs.go` | the remote tree | `Mkdir`, `OpenFile`, `Rename`, ... | two remote calls per operation with a failure or another client in between |
| Transfers | `fs.go:112-331` | source and destination trees | `Upload`, `Download`, `DownloadDir`, `copyDir`, `copyFile`, `totalSize` | a copy that fails half way, several hosts writing to one local directory |
| Paths and permissions | `fs.go:20-110` | none | `NewPath`, `CleanPath`, `Perm` | defaults and boundary forms |
| Host specifications | `ssh_config.go:372-499` | none (the config is parsed at most once) | `ParseHosts`, `splitHostSpec`, `expandHostToken`, `hostAliases` | ranges at the integer limit, zero padding, duplicates |
| SSH configuration | `ssh_config.go:25-370` | parsed config files | `ClientConfig`, `connectTimeout`, `ConnectAddr`, `knownHostAlgorithms`, ... | duration overflow, key types against known_hosts, hashed hosts |
| Quoting and path tests | `cmd.go:102-146` | none | `Quote`, `FileExists`, `DirExists` | exit status 1 told apart from other failures |
| Test bed | `iagotest/` | containers and a network | `CreateSSHGroup`, `createContainer`, the cleanups | a fatal error between creating a container and registering its cleanup |
| Host variables | `iago.go:20-72`, `ssh.go:623-630` | `vars` | `SetVar`, `GetVar`, `Expand` | a map without a lock under concurrent runs |

How they interact: `ParseHosts` produces the aliases that `NewSSHGroup` dials;
`NewSSHGroup` reads the SSH configuration, builds each host, and hands hosts
and jump connections over to a `Group`. `Group.Run` and `Collect` call tasks
that use a host's `NewCommand` (through `Shell`), `Execute` or `GetFS` (through
the transfers). `Group.Close` ends every host, which ends its keepalive loop,
and then the shared jumps.

What makes each correct:

* Group dialing: each jump is dialed once and before any target; the error a
  FailFast call reports is about the earliest failing alias; a returned group
  accounts for every alias; an error leaves nothing open; the call returns.
* Runs: each failure reaches its handler once and is kept; the run ends once
  its tasks do; `Collect`'s map is exact.
* Host lifetime: a dead connection is closed and unblocks its sessions; closing
  ends the loop; jumps outlive the hosts that use them.
* Shell and Execute: all output is delivered before `Apply` returns; the error
  returned is the command's; nothing is left running; cancellation ends a run.
* File system and transfers: on success the destination equals the source with
  the permissions asked for; what a failure leaves behind is known.
* Host specifications and configuration: the functions compute what their
  documentation says for every input, at the limits too.

## 2. Modules

| Module | Role |
|---|---|
| `GroupDial` | `NewSSHGroup` and its `groupDialer`, with the steps of host construction; its properties; the inductive invariant `DialInv` |
| `DialPromise` | what `NewSSHGroup` promises, without jumps, workers or channels; `GroupDial` implements it (`ImplementsPromise`) |
| `GroupDialProofs` | theorems about `GroupDial`: `DialInv` and what follows from it, and that it implements `DialPromise` |
| `MCGroupDial` | instances of `GroupDial` for TLC |
| `GroupRun` | `Group.Run`, `Collect`, `Errors`, the `Panic` and `Ignore` handlers |
| `GroupRunProofs` | theorems about `GroupRun` |
| `MCGroupRun` | instances of `GroupRun` for TLC |
| `ShellRun` | `Shell.Apply`, `pipe`, `sshCmd.RunContext`; session, command and network as environment |
| `ShellRunProofs` | theorems about `ShellRun` |
| `MCShellRun` | instances of `ShellRun` for TLC |
| `HostLife` | `startKeepAlive`, `keepAliveLoop`, `sshHost.Close`, `Group.Close`; the inductive invariant `LifeInv` |
| `HostLifeProofs` | theorems about `HostLife` |
| `MCHostLife` | instances of `HostLife` for TLC |
| `Transfer` | `Upload`, `Download`, `DownloadDir` and its `Size`, over `sftpfs`' `Mkdir` and `OpenFile` |
| `TransferProofs` | theorems about `Transfer` |
| `MCTransfer` | instances of `Transfer` for TLC |
| `Session` | `Execute`, `NewCommand`, `requestAgentForwarding`, `sshCmd.Run`, `Start`, `Wait`: the sessions of one host |
| `SessionProofs` | theorems about `Session` |
| `MCSession` | instances of `Session` for TLC |
| `HostSpec` | `ParseHosts`: host specifications to aliases |
| `HostKeys` | `ClientConfig`, known_hosts, and the handshake its result is used in |
| `SSHConfig` | the composition of `HostSpec` and `HostKeys`: resolve, then connect to an alias |
| `SSHConfigProofs` | theorems about `HostSpec` and `HostKeys`, within the program of `SSHConfig` |
| `MCSSHConfig` | an instance of `SSHConfig` for TLC |
| `TestBed` | `iagotest.CreateSSHGroup`, with the containers, the network and the cleanups |
| `TestBedProofs` | theorems about `TestBed` |

### GroupDial

An alias list, a configuration and the group options are chosen in `Init` and
never change. A *position* is an index of the alias list, since an alias may be
listed twice (`ParseHosts` does not remove duplicates).

| Variable | Code |
|---|---|
| `phase`, `next` | where the calling goroutine is: `NewSSHGroup`, the loop of `prepareJumps`, the scheduling loop of `dialAll`, `wg.Wait`, `closeOnError`; the loop's index |
| `jumpClients`, `jumpErrs` | the keys of the two maps of the dialer |
| `jumpOpen`, `jumpDials` | which jump connections are open; how often each was dialed (history) |
| `worker` | the worker goroutines: idle in `range jobs`, at a stage of `dialOne`, or ended |
| `abort`, `results` | the closed-ness of `abort`; the `results` slice |
| `held` | what each position's connection holds open: client, agent connection, SFTP client, keepalive loop |
| `hosts`, `dialErrs`, `ret` | the dialer's fields; the error `NewSSHGroup` returns |

Each action is one step that other goroutines can come between: an iteration of
`prepareJumps` (`SkipJump`, `JumpConnects`, `JumpFails`), the rendezvous on the
unbuffered `jobs` channel (`Hand`), the `abort` case or the end of the
scheduling loop (`StopScheduling`), the stages of `dialOne` (`Route`,
`Connect`, `OpenAgent`, `OpenSftp`, `FetchEnv`), each of which may fail,
`collect` with the choice of the error (`Collect`), and the closes of
`closeOnError` (`CloseHost` in the order of the list, then `CloseJump`, in any
order since Go ranges over the map in any order). The `select` of the scheduler
chooses at random when a worker is ready and `abort` is closed: both `Hand` and
`StopScheduling` are then enabled.

Abstracted: addresses, keys and authentication (a dial succeeds or fails by
choice), the wording of errors (an error is a kind and whom it blames), the
time a step takes. A keepalive loop is a resource here; what it does is in
`HostLife`. The SSH config is read once by
`ParseSSHConfig`; later reads of `ClientConfig`, `forwardAgent` fail by choice
(`"config"`), while a `ProxyJump` that cannot be read fails for its alias
every time, as both `prepareJumps` and `jumpFor` read it.

### GroupRun

One module for any number of `Run` calls on one group. A run's kind is its
error handler: `Panic` (the caller recovers; the process would end otherwise),
`Ignore`, the `Handle` of an `Errors` shared by all "shared" runs, or `Collect`.
`TaskEnds` is the task function returning in its goroutine, with `Collect`'s
critical section under `mu` in the same step; `Receive` is the rendezvous on
`errors`; `Errors.Handle` is two steps under its mutex (`LockErrs` reads the
slice, `AppendErr` stores the longer one), so that dropping the mutex loses an
error. `Expire` is the group's `Timeout`.

### ShellRun

One call of `Shell.Apply`. The *job*, chosen in `Init`, says which fields of
the `Shell` are set and what the call meets: how much the reader of `Stdin`
yields and whether it then ends, which writers may fail, what the command reads,
writes and exits with. Data is counted in chunks.

| Variable | Code |
|---|---|
| `apply`, `err` | where `Apply` is: opening pipes, in `session.Wait`, receiving from the helper (`joining`), in the deferred drain; the set of errors joined so far |
| `copier`, `failed` | the goroutines running `pipe`: copying, blocked on `errChan`, drained; which of them have an error |
| `old`, `sink` | a `Write` in two steps, reading what the writer holds and storing the longer content |
| `helper`, `closeErr`, `runCtx` | the goroutine of `RunContext`, what its `session.Close` returned, the cancel of the child context |
| `ctx` | the caller's context, which may be done at any time |
| `fed`, `eaten`, `inClosed` | the command's standard input |
| `chan`, `unread`, `status` | the session's channel, its unread chunks (at most `Window`), the exit status received |
| `remote`, `produced`, `peer` | the command, its output, and whether the server still answers |

The steps of `x/crypto/ssh` are modelled from how `src/` uses them: `Wait`
returns when the channel is over, a missing exit status is an error, closing a
closed session, or one whose connection is over, is `io.EOF` or the write's error
(`Apply` ignores the first), a session serves a stream that has no pipe by itself.
The exit status and the output arrive in any order: a server sends the status when
the command exits, whatever data is still to be read. The deferred `safeClose` calls write to a variable
that shadows the result, so their errors are lost; they are part of `Leave`.

### HostLife

Any number of calls of `Group.Close` and of `Host.Close` on the hosts of one
group, with the keepalive loops running.

| Variable | Code |
|---|---|
| `conn` | the SSH connection of each host and jump: up, silent, or over (a tunnelled one is over with its jump: `Over`) |
| `loop`, `done`, `ticking`, `onDead` | the loop's goroutine, its `done` channel, the ticker, the calls of `onDead` |
| `call`, `sharedDone` | each call of Close: at its hosts, at the shared jumps, returned; which jumps it has closed |
| `at`, `sftpClosed` | the stage of `sshHost.Close` for each call and host: `once.Do` with its `close(done)` and `ticker.Stop`, the agent connection and the SFTP client, the client |
| `errs` | what the call will return |
| `troubled` | history for the properties: the network has failed |

The agent connection is closed with the SFTP client in one step, as nothing can
be observed between the two.

### Transfer

The hosts of a group perform one copy at the same time, as `Group.Run` has them
do. The copy, what is at the destination before, and which hosts come from one
alias are chosen in `Init`. Hosts of one alias are one machine and have one
name, so that an upload by both writes the same remote files and a download by
both the same local ones; `AreaOf` says where a host's copy goes.

| Variable | Code |
|---|---|
| `dst` | the destination: for each node whether it is there, its permissions, and which source each chunk of a file came from |
| `pc`, `cur` | the call each copy is about to make, and the file or directory it is at |
| `stack` | the calls of `copyDir` under way, each with the entries still to come |
| `create` | `OpenFile`'s flag, from its earlier `Stat` |
| `pos`, `open`, `err` | chunks copied of the current file, its open handles, the result |
| `progress` | the sum of what `Progress` was given |
| `unseen` | history for a property: files whose `Stat` failed for another reason than `ErrNotExist` |

Every call to a file system is a step and may fail. `Recheck` is external:
`wrfs.MkdirAll` may or may not be content with a directory that is there after
`Mkdir` failed. `ReadDir`'s entries come in any order. The source does not
change during a copy. A file of it may be a symbolic link (`link`) to a file or
to a directory: `Size` counts what the directory lists, the copy opens what the
link leads to, and the first `Read` of a directory fails. `Size` is the number of
pairs of a file `Below` the source and a chunk of it (`TotalSize`): a sum over the
tree that is stated without recursion. Permissions are
sets of bits: what a download creates has those asked for less the process's `umask`
(an input), what an upload creates has those the server gives until `Chmod` sets the
ones asked for (`NewMode`). The bytes of a file are
a few chunks. `cwd` says whether the SFTP server's working directory is the
root, which `Mkdir` depends on by passing `Chmod` a relative name. What that
`Chmod` changes elsewhere is outside the tree and not in the model.

### Session

Each session has a *kind*, chosen in `Init`: a call of `Execute`, a `Run` of a
command, or a `Start` and a `Wait`. `RunContext` is in `ShellRun`.

| Variable | Code |
|---|---|
| `at` | where the caller is: `NewSession`, the Once, the forward request, the `go` statement, `Start`, `Wait`, the assignment of `err`, the deferred close or the receive from `c` |
| `once`, `requests`, `granted` | `agentFwdOnce`; the requests sent (history); the server's grant |
| `helper`, `closed`, `err` | `Execute`'s goroutine in three steps: `session.Close`, the look at `*errPtr`, the store into it; the named result they share with the caller |
| `open`, `remote`, `output`, `result` | the channel, the command, the content of `buf`, what the session returned |
| `sawAgent` | the commands that found `SSH_AUTH_SOCK` (history) |
| `cancelled`, `conn` | the contexts that are done; the connection: up, silent, over |

`Assign` is a step of its own since the helper can come between `Run`'s return
and the store of its result. `WaitReturns` is `session.Wait` of the library: it goes
by the exit status if one has arrived before the channel or the connection ended, and
then `buf` may hold less than the whole output.

### HostSpec, HostKeys, SSHConfig

`HostSpec` works on tokens: a blank, a literal, a range with its two numerals (value
and number of digits), a glob with the aliases it matches. `expandHostToken`'s loop
is an action per alias, with the counter in a machine int (`Wrap`) and the
`make` that panics for a capacity it cannot have; the loop is followed up to
`Enough` aliases. `hostAliases` is an action per pattern (`MatchAlias`) of the config
file, which `LoadConfig` reads for the first glob. The expected list, `Meaning`, is
defined from the documentation of `ParseHosts`, token by token and independently of
that loop.

`HostKeys` has one action per part of `ClientConfig`: the callback (`CheckStrict`,
`StatFile`, `LoadFile`), the timeout, signers and user, and `knownHostAlgorithms`, which
reads a file as a whole (`ReadKnownHosts`) and then looks at its lines one by one
(`AddAlgorithm`; `unread` holds those to come). A line of known_hosts is abstracted to what is asked of it:
whether its host field names the address, hashes it, matches it with a wildcard
or is about another host, its key type, and whether the key is the server's. Two
kinds of line make `knownhosts.New` fail: a *short* one, which `knownHostAlgorithms`
skips too, and *garbage*, whose second field it takes for a type all the same.
`knownhosts.New`, the callback it makes and the choice of the host key algorithm
are external. `Rewrite` is another program that replaces a file, at any moment
of the call. `setting.faulty` names an option whose `get` fails.

`SSHConfig` runs the first and then the second, as a program does that
calls `ParseHosts` and gives the aliases to `NewSSHGroup`.

### TestBed

| Variable | Code |
|---|---|
| `pc`, `i`, `tries` | the call `CreateSSHGroup` is about to make, for which container; the look-ups of its port |
| `cleanups` | what `t.Cleanup` was given and has not run; the last is run first |
| `verdict`, `diedAt` | what the test is marked as; the call that ended it (history) |
| `stream`, `network`, `container`, `attached`, `connected` | the image stream, the network, each container, which are connected to the network, which hosts have an SSH client |
| `cutOff`, `refused` | history: hosts whose container was stopped under them; cleanups that failed |

Each call to the Docker daemon is an action that succeeds or fails; `Fatal` and
`Skip` end the test and leave the rest to the cleanups. Only a running container
keeps the daemon from removing the network.

## 3. What the runs check

| Run | Instance | Question |
|---|---|---|
| `dial` | 3 distinct aliases, two through one jump and one through another or none, pools of 1, 2 and 3; and empty, one-element and repeated alias lists, unreadable `ProxyJump`, agents and keepalives, pools of 1 and 2 (`DialConcurrency(-1)` too); FailFast on and off | is every interleaving of scheduler, workers, failures and closes safe, does it keep the promise, and does `NewSSHGroup` return? |
| `dial_leak` | 2 and 3 aliases, pools of 1 and 2 | violated: see Findings |
| `runs` | 2 runs on 2 hosts of one name or of two, every pair of handlers | are errors kept when runs share a collector, is `Collect` exact, does `Run` end? |
| `shell_run` | one call with no, some or all streams; up to 3 chunks of output, 2 of input, a window of one chunk; failing writers, one writer for both outputs, blocking readers, silent peers; an exit status before, amid or after the output | is the answer the command's, what of its output do the writers hold, and does `Apply` return? |
| `life_close` | 2 hosts, 1 jump, 2 calls, each of the group or of a host; loops or none; any network failure | order, locality and errors of the closes |
| `life_live` | a tunnelled and a direct host with loops; a call of `Group.Close` and one of the tunnelled host's `Close`; any network failure | do calls that meet return, do loops end, is silence noticed? |
| `transfer_copy` | 2 hosts, of one alias or of two; 2 directories, a file of two chunks and an empty one; over nothing, a longer old copy, entries of the wrong kind; a umask of 022, or 077 for `DownloadDir`; for `DownloadDir` a symbolic link | is a success complete, what does a failure damage, do copies end? |
| `transfer_dirperm` | as `transfer_copy`, every form of `Perm` | violated: see Findings |
| `resolve` | every range between numerals of the values 0, 1, 7, 9, 10, 11, 12 (the largest int) and 13, each with and without a zero before it; every mixture of up to three of six other tokens; known_hosts of up to two lines out of eleven, in two files, rewritten once; 18 odd settings | is a list of hosts what it should be, is a recorded server accepted and any other refused? |
| `sessions` | 2 sessions of `Execute`, or one next to a `Run`, or a `Run` and a `Start`; with forwarding or without | are errors faithful, is forwarding asked for once and before any command, do sessions end? |
| `execute` | 1 call of `Execute` | violated: see Findings |
| `testbed` | 3 containers, 2 look-ups of a port | is everything removed, in order, wherever the test ends? |

The properties, each stated with a comment in its module:

* `JumpsPrepared` (a part of `DialInv`), `JumpDialedOnce`: the boundary between the two phases of
  the dialer holds although the second one takes no lock.
* `FailFastEarliest`: whatever order the workers finish in, the alias that is
  blamed is the earliest failing one, and every alias before it connected.
* `FailFastStops`: the abort costs the pool one worker per failure, so a pool
  of one stops at the first.
* `ErrorReleasesOwned`, `GroupAccountsForAll`, `NoHostCutOff`: ownership. An
  error closes what the dialer tracks, a group has a live host or an error for
  every position, and no jump is closed under a host that still uses it.
* `ImplementsPromise`: the dialer implements `DialPromise`.
* `DialInv`: the inductive invariant of section 5.
* `Termination`: the scheduler and the workers cannot wait for each other.
* `EveryErrorKept`, `CollectExact` (a part of `RunInv`), `RunEnds`: see section 1.
* `OutputComplete`: nil means that the writers hold all of the output that arrived,
  although copiers, command, cancellation and connection end in any order, if each
  output has a writer of its own; and that this is all the command wrote, if the
  server ended the session. (After an exit status of zero, a cancellation or a
  loss may still cut the output short, and `Apply` returns nil: see below. With one writer for both, which the instance also has
  for the other properties, two copiers may overwrite each other.)
* `ExitStatusFaithful`: the exit status in the error is the command's, nil means
  zero, and `pathTest` never answers for a test that did not run.
* `NothingLeftBehind`: no copier outlives `Apply`, and a helper does only after
  a command that failed. (It then stays blocked on its channel for ever: one
  goroutine per failed command, each "absent" answer of `FileExists` included.)
* `ApplyReturns`: `Apply` returns unless `HeldUp` says why not. Its reasons are
  facts about the code: a silent peer without keepalives; a reader of `Stdin`
  that blocks, which no cancellation interrupts; pipes opened for a command
  that then did not start; and, until the context is done, a command that
  reads its input to the end (`in` is closed only after the command, by a
  defer) or that fills the window after a writer failed.
* `HostsBeforeJumps`, `OthersStayAlive`: jumps are closed after all hosts, and
  the close of one host is felt by no other.
* `CleanCloseIsNil`: one close on a healthy network reports nothing.
* `CallsReturn`, `LoopsEnd`, `SilenceIsNoticed`: closes and loops do not wait
  for each other, and pings alone uncover a silent peer.
* `SuccessIsComplete`, `FilePermsAsAsked`: once all copies to a destination have
  returned nil, it is what was asked for, although copies of one alias truncate
  each other's files: the last one to truncate a file writes all of it. The
  permissions of what a download creates are those asked for less the umask.
* `OneFileAtRisk`: a copy that fails leaves one damaged file, and it is the one
  it came to last.
* `ProgressReachesSize`: `Progress` adds up to `Size` in a tree without symbolic
  links; the property says by how much it differs with them.
* `HandlesClosed`, `EveryCopyEnds`: no file stays open, whichever call failed,
  and a copy returns.
* `HostsExact`: the list is at all times a beginning of what the specification
  stands for (but in the loop of a range up to the largest int, which goes on behind
  it), and all of it at the end; an error has a reason and returns
  nothing; the config is parsed once, for a glob. The range loop, its padding
  rule and the laziness are each checked against a definition without them.
* `OnlyRecordedKeys`: whatever algorithms were asked for and whoever rewrites
  known_hosts between its two readings, a server is accepted only with a key a
  named file held for it, and every algorithm asked for is named by a line about
  the address (one that the callback could not have parsed, if a file was
  rewritten after it was made).
* `KnownServerAccepted`: a server with a recorded key is not turned away for the
  order in which Go prefers algorithms. Its precondition says what that takes:
  the server signs with the algorithm called like the recorded type (see below).
* `SessionInv`: one forward request at most, answered before any command starts,
  and one answer for all, as `requestAgentForwarding` says (for the doc of
  `ForwardAgent`, see below); a session that returned is closed.
* `NilIsSuccess`, `SessionsEnd`: a nil error is a command that exited with 0 and,
  unless the connection was lost after that, all of its output; an `Execute` whose
  context was done is excepted. Sessions end with the command, the context or the
  connection, but not on a silent one.
* `BedInv`, `NothingLeftBehind`: cleanups find what they clean up, in the right
  order; what a test can leave behind is listed, and it is never silent.

Behaviours that are no error of the models but worth knowing:

* A nil error can go with truncated output. The exit status may arrive before the
  last of the output; if the context is then done, `RunContext`'s helper closes the
  session, `Wait` still returns nil for the status 0, the copiers see `io.EOF`,
  and `Apply` ignores the `io.EOF` of the close (`src/cmd.go:75-90`,
  `src/ssh.go:646-660`). A connection lost at that moment does the same, also to
  `Run`, `Wait` and `Execute`, whose `safeClose` ignores `io.EOF`
  (`src/ssh.go:561,637,668`).
* The doc of `ForwardAgent` (`src/iago.go:132-135`) says that "each session opened
  on a dialed host will request agent forwarding". The code asks once per host, in
  the first session (`src/ssh.go:581-605`), and `SessionInv` checks that it does:
  the comment there explains that OpenSSH grants forwarding to the connection, and
  that a server which grants it to a session would forward to the first one only.
* Local permissions are subject to the umask: `Download` and `DownloadDir` open
  files with the mode of `Perm` and never set it afterwards (`src/fs.go:276,301`),
  so that the file of a `NewPerm(0o666)` is 0644 under a umask of 022, against the
  letter of `src/fs.go:65`. An upload has all of it, through `Chmod`.
* Symbolic links: `DownloadDir.Size` adds the size of a link, `Apply` copies and
  reports what it leads to; a link to a directory makes every copy of the tree
  fail at its first `Read`, after an empty file was made at the destination.
* A known_hosts line of type `ssh-rsa` makes `ssh-rsa` (SHA-1) the algorithm
  asked for; a server with that key that only offers `rsa-sha2-*` is turned away
  if nothing else is recorded.
* `createHostKeyCallback` says (`src/ssh_config.go:329`) that it returns an error
  without valid files; it returns a callback that refuses every server.
* A range up to the largest int never ends (`i <= hi` always holds), and a very
  wide one panics in `make` (`phase = "panic"`). A glob with a syntax error is
  accepted if the config enumerates no alias.
* `ConnectTimeout` above about 9.2e9 seconds wraps to a negative duration (`Wrap`),
  a deadline that is already past, although the timeout is to be "taken from the
  SSH config's ConnectTimeout option when set" (`src/ssh_config.go:140-143`). No
  property of a run is about it: `TypesOK` has the product in the range of an int64,
  as it is in Go.
* A refused `Start` leaves its channel open: `CmdRunner` has no `Close`.
* When a command's start is refused, `Apply`'s drain waits for the copier of
  `Stdout` past any timeout, as nobody closes the session (a reason in `HeldUp`).
* Both copiers of `Apply` write without a lock. One `strings.Builder` given for
  `Stdout` and `Stderr`, as in `src/iagotest/agent_forward_test.go:91-95`, may
  lose output; `OutputComplete` speaks of separate writers.
* A ping in flight when its host is closed fails because of the close, and
  `onDead` closes the client a second time, although the stop was clean.
* `waitForSSHReady` looks at its deadline between dials only, and gives them no
  timeout: a server that accepts and is silent holds it.

One more: a command that exits without reading all of its input leaves the copier
of `Stdin` with `io.EOF` from its `Write`, and the drain joins that into `Apply`'s
result, so a successful command can be reported as failed.

Bounds. Three positions are the fewest with a failure that has an alias before
it, one after it and one in flight; three workers is one per position, which
`dialConcurrency` never exceeds. Two jumps suffice to tell a shared jump from
another. In `GroupRun`, two runs suffice for a race on a shared collector and
two hosts for a name that two have. In `ShellRun`, a window of one chunk makes
every second chunk wait, which is all the capacity decides; two chunks on one
output and one on the other suffice to fill it from both sides.
In `HostLife`, two hosts are one to close and one to be disturbed, and two calls
give every race of `once.Do` and of the double closes. Liveness takes one pair of
calls that meet, over one tunnelled and one direct host (`MeetingInit`): the
two calls reach the same `sshHost.Close`, one of them with a jump to close after it. In `Transfer`, two
chunks let a truncation fall between two writes, and `MaxLen` makes the old
content longer than the new, so that `O_TRUNC` matters; each umask takes off some
of the bits asked for and leaves others; uploads to two machines
share nothing, so `MCInit` leaves them out, and links matter to `DownloadDir` only.
In `SSHConfig`, numerals of one and two digits with a zero before them give every
case of the padding rule, and two lines of known_hosts every pair of a good line
and one that disturbs it; `MCInit` varies specifications, files and settings in
turn, since they do not meet. `MaxInt`, `MaxAlloc` and `MaxDuration` are small
integers with the same wrap. In `Session`, two sessions are one that asks and one
that waits; in `TestBed`, three containers are one to fail, one before it and one
never made, and ten look-ups of a port are two. Nothing else is bounded.
Deadlock checking is off in every configuration because the modelled calls
return; that they do return is what `Termination`, `RunEnds`, `ApplyReturns`,
`CallsReturn`, `EveryCopyEnds` and `SessionsEnd` check. (`HostSpec`, `HostKeys` and
`TestBed` are straight lines.)

Fairness. `GroupDial!FairSpec` asks only that the system does not stop while a
step is possible. That includes the end of a dial attempt, an assumption about
the network and not something the code guarantees: `ClientConfig.Timeout`
bounds the TCP connect, but neither `ssh.NewClientConn` nor the set-up after it
has a deadline. `Termination` therefore says that the pool never blocks itself.
`GroupRun!FairSpec` has the timer fire and the caller scheduled (strongly, as
Go's mutex lets no waiter starve), and trusts a task only to end once its
context is done. (`ShellRun` shows when a `Shell` does not.) `ShellRun!FairSpec`
schedules the goroutines, lets a command go on while its server answers, and has
a silent connection end if keepalives are sent on it; the context need not end.
`HostLife!Fairness` schedules loops and calls, has the ticker tick, and has the
kernel give up a silent connection that holds unacknowledged data (a ping, or
the end of the SFTP session). A ping has no deadline in the code, so how promptly
silence is noticed is the kernel's retransmission timeout.
`Transfer!Fairness` schedules the copies and has every file system call answer:
a transfer ignores its context, so without an answer it waits past any timeout.

`Session!Fairness` schedules callers and helpers and has a server that answers end
a command whose channel was closed; commands need not exit, and nothing is
assumed of a silent connection.

## 4. Findings

* `dial_leak`: `newHostFromClient` returns on an agent, SFTP or environment
  failure without closing the `*ssh.Client` it was given (nor the SFTP client,
  when `fetchEnv` fails). The dialer does not know these connections, so they
  stay open when `NewSSHGroup` returns an error, against the comment at
  `src/ssh.go:234-236`. `ErrorReleasesOwned` is the part of that comment that
  does hold. (A tunnelled connection is ended by the close of its jump.)
* `transfer_dirperm`: `sftpFS.Mkdir` makes the directory at the full name and
  then gives `client.Chmod` the name without its prefix
  (`src/sftpfs/sftpfs.go:127`). Unless the server's working directory is the
  root, the new directory keeps the server's permissions, and the `Chmod` fails
  or changes another directory; the upload can still succeed, against
  `src/fs.go:65`.
* `execute`: `Execute`'s helper calls `safeClose(session, &err, io.EOF)` on the
  result that the function assigns `Run`'s error to. If the context is done, the
  helper can see `err` nil, then `Run`'s error is assigned, and then the helper
  stores the nil of its `Close` over it: a cancelled `Execute` returns no error for
  a command that was killed or, as in the trace, refused because the helper had
  closed the session before it could start, against `src/ssh.go:541`.

## 5. Proofs

### GroupDial

`GroupDialProofs` proves, for every alias list, configuration, set of jumps and
pool size, with only `InputsAssumption` (the types of the constants, and that
the markers `Direct` and `GetError` are no jumps):

| Theorem | Statement |
|---|---|
| `TypeCorrect` | `Spec => []TypeOK` |
| `DialInvAlways` | `Spec => []DialInv` |
| `JumpsPreparedAlways` | `Spec => []JumpsPrepared` |
| `JumpDialedOnceAlways` | `Spec => []JumpDialedOnce` |
| `ErrorReleasesOwnedAlways` | `Spec => []ErrorReleasesOwned` |
| `FailFastEarliestAlways` | `Spec => []FailFastEarliest` |

None of the properties is inductive by itself. `DialInv` adds three parts.
`JumpsInv`: every position the loop of `prepareJumps` has passed is settled, so
all are once the pool starts. `PoolInv`: while the pool runs, a position below
`next` has either a result or exactly one worker, and no position from `next`
on has any; this is what makes every alias before a failure a finished one when
`Collect` runs. `AnswerInv`: from then on no worker is dialing, so `hosts` and
the connected positions stay the same set. Each part has a lemma with one step
per action; the five stages of `dialOne` are treated together as `DialStep`.
`MinIsLeast` and `MaxIsGreatest` derive what `Min` and `Max` return from the
well-foundedness of the natural numbers.

Its second part adds, on top of `DialInv` and from the same assumption:

| Theorem | Statement |
|---|---|
| `FailFastStopsAlways` | `Spec => []FailFastStops` |
| `GroupAccountsForAllAlways` | `Spec => []GroupAccountsForAll` |
| `NoHostCutOffAlways` | `Spec => NoHostCutOff` |

`StopInv` counts failures against workers that ended, and says of one worker alone
that it is done with an alias before it takes the next. `HeldInv` follows a
connection through the stages of `dialOne`, so that a host has its clients until
`closeOnError`; `CollectComplete` is the argument that a group is only returned
when no dial was skipped. `OpenInv` has a dial past `jumpFor` use a jump that is
in `jumpClients`, and keeps it open as long as a host holds anything.

The third part proves the refinement, `ImplementsPromiseAlways`: `Spec =>
ImplementsPromise`. `HopeInv` says why `closeOnError` may have been entered
(nothing was dialed, or FailFast met its earliest failure, or every alias failed);
then `CloseHost` is the promise's `Release`, `ReturnError` and a failed
`ParseConfig` its `AnswerError`, a `Collect` without error its `AnswerGroup`, the
end of a dial its `Resolve`, and every other step changes nothing it speaks of.

### GroupRun

`GroupRunProofs` proves `RunInvAlways`, `Spec => []RunInv` (the types, and
`CollectExact`), and `EveryErrorKeptAlways`, `Spec => []EveryErrorKept`, for any
hosts, names, handlers and number of concurrent runs. `LockInv` is the mutex of
`Errors`: who appends is alone with a collector, and what was read of it is still
there. `ErrsInv` then has a collector hold exactly the errors the handlers have
been through with, each once, and `MapInv` states `CollectExact` for the map at
every moment. `TaskInv` ties outcomes to tasks and a returned `Run` to all of them.

### ShellRun

`ShellRunProofs` proves, for any commands, streams and window:

| Theorem | Statement |
|---|---|
| `TypeCorrect` | `Spec => []TypeOK` |
| `ExitStatusFaithfulAlways` | `Spec => []ExitStatusFaithful` |
| `NothingLeftBehindAlways` | `Spec => []NothingLeftBehind` |
| `OutputCompleteAlways` | `Spec => []OutputComplete` |

`OutputComplete` says that nil comes with all that arrived, and with all the command
wrote when the session was not cut short (`Uncut`).
`CallInv` says what `Apply` has in `err` where, `RemoteInv` that the status is the
command's, `FailInv` that a drained copier's error is one of `Apply`. `DataInv`
balances what a command wrote: a chunk is unread, in the hands of the copier, or
with the writer. It is kept only for jobs that have a writer for each output, which
`src/cmd.go` leaves to its callers (section 3), so the invariant of that theorem is
`IndInv` with `job.sameWriter \/ DataInv`.

### Session

`SessionProofs` proves `SessionInvAlways`, `Spec => []SessionInv`, and
`NilIsSuccessAlways`, `Spec => []NilIsSuccess` (exit status 0, and the whole output
but for a connection lost after it), for any number of sessions.
`OnceInv` has one caller inside the `sync.Once` and everyone past it find it used
up; `AgentInv` ties the agent to the commands that started after it was granted;
`OwnerInv` says who closes a session. `NilInv` needs the context not to be done:
only then does the helper of `Execute` come after the result.

### HostLife

`HostLifeProofs` proves, for any hosts, jumps and calls of Close, with only
`LifeAssumption` (names of different kinds differ):

| Theorem | Statement |
|---|---|
| `TypeCorrect` | `Spec => []TypeOK` |
| `LifeInvAlways` | `Spec => []LifeInv` |
| `HostsBeforeJumpsAlways` | `Spec => []HostsBeforeJumps` |
| `OthersStayAliveAlways` | `Spec => []OthersStayAlive` |
| `CleanCloseIsNilAlways` | `Spec => []CleanCloseIsNil` |

`LifeInv` adds `LoopInv` (a loop that has not ended has not called `onDead`,
which bounds `onDead` by one) and `CloseInv` (what a call has closed is over,
and it is past its hosts only with all of them closed). `OverStays`, nothing
reopens a connection, is the lemma that lets calls and loops run beside each
other. `ReachedInv` has only a call that closes a host, or its group, end a
connection of a network that is well, and `LoneInv` has a call that is alone find
everything as it left it itself.

### Transfer

`TransferProofs` proves, for any hosts, aliases and trees, with only
`TransferAssumption` (the types of the constants; directories and files differ) and,
for the last theorem, `TreeAssumption` (the tree is finite, and no directory is below
itself):

| Theorem | Statement |
|---|---|
| `CopyTyped` | `Spec => []TypeOK` |
| `HandlesClosedAlways` | `Spec => []HandlesClosed` |
| `CopyComplete` | `Spec => []SuccessIsComplete` |
| `OneFileAtRiskAlways` | `Spec => []OneFileAtRisk` |
| `FilePermsAlways` | `Spec => []FilePermsAsAsked` |
| `ProgressAlways` | `Spec => []ProgressReachesSize` |

`HandlesInv` gives the handles of a copy for each call it may be about to make.
The others need `CopyInv`. That every copy has returned nil says nothing of the
moment a file was written, and two hosts of one alias truncate each other's files,
so the invariant keeps for every file and node who still owes what:

* `FileInv`: a file at a destination is as it was, or it was opened (`Written`):
  every chunk it should have is there from its own source, but for those that a
  copy which has the file open is still to write or, having failed, never will. A
  truncation makes all chunks owed
  by the one who truncates, whoever wrote before.
* `CoverInv`: unless a copy failed, each node of `Below[src]` is made, or is being
  made, or is below a node that is still to come on the copy's stack.
* `ModeInv`: a file has the permissions it should have (`Granted`), or someone is about to
  set them, or its `Stat` failed.
* `LocalInv`: what one copy's `pc`, `cur`, `create` and stack say of each other.
* `SameAlias`, `TypeInv`: the inputs, and the types of all variables.

Steps of one copy reduce to what it writes (`WritesAs`: it opens a file, gives it
permissions, or adds a chunk), and a step of another copy to `OthersUntouched`.
`Below` is defined as what every set closed under `Children` contains, so that its
two lemmas (`BelowChildren`, `BelowFile`) need no induction and no finite tree.

`ProgressAlways` rests on two more parts. `ApartInv`: no two entries that are still to
come, on one level of `copyDir` or on several, have anything below them in common,
and nothing that is being copied comes again. It holds because children of one
directory have nothing in common (`SiblingsApart`, the only use of a directory not
being below itself). `BudgetInv`: what was reported and the chunks ahead are together
the chunks of the tree, and at most those after a failure. A step keeps what is
ahead, reads one chunk of it, or gives it up (`DirAhead`, `FileAhead`,
`FailureAhead`); sums are cardinalities of sets of chunks (`Units`), so that disjoint
entries add up without an induction over the tree. `SizesDiffer` accounts for the
links, whose listed size is not that of what they lead to.

### TestBed

`TestBedProofs` proves `BedInvAlways`, `BedSpec => []BedInv`, and
`NothingLeftAlways`, `BedSpec => []NothingLeftBehind`, for any number of containers
and look-ups. `BedAssumption` only says that the three names of cleanups are
different and no numbers. The key is `Shape`: the cleanups that have not run are
always the first so many of one fixed list, image, network, containers in order,
group (`Nth`), so that *which* are pending is a matter of how many. `SetUpInv` says
what has its cleanup while the group is set up, `CleanUpInv` that what is left over
when its cleanup has run was refused or is stranded, and `PendingInv` that what a
pending cleanup is for is there.

### SSHConfig

`SSHConfigProofs` proves, for any specifications, config files, known_hosts files and
their contents, algorithms, servers and settings, with `KeysAssumption` and
`HostsAssumption` (the types of the constants; `TypeOf` names key types; a config has
fewer patterns than the largest int, as they are counted in one):

| Theorem | Statement |
|---|---|
| `ConfigTyped` | `ProgramSpec => []TypeOK` |
| `OnlyRecordedKeysAlways` | `ProgramSpec => []OnlyRecordedKeys` |
| `KnownServerAlways` | `ProgramSpec => []KnownServerAccepted` |
| `TypesAlways` | `ProgramSpec => []TypesOK` |
| `HostsExactAlways` | `ProgramSpec => []HostsExact` |

`ProgramSpec` is the program of `SSHConfig`; a step of it is one of `HostSpec`, one of
`HostKeys`, or leaves the variables of either alone.

The first three are about `HostKeys`. The files are read twice and may change in between, so
`KeysInv` speaks of the lines that are in a file before and after the rewrite
(`Steady`) and of those that ever are in one (`Ever`): `LoadInv` has the callback
know the first, `SourceInv` has everything known or asked for come from the second,
and `OneRewrite` lets a line in both states of the disk be steady in some one file,
which is why a key revoked all along is always refused. `ReadInv` is the same for
the list of algorithms, and `VerdictInv` what the handshake decided. `LeastOf` gives
the first common algorithm, `WrapsIntoDuration` the range of the wrapped product.

The last two are about `HostSpec`. `HostsTypeInv` keeps the counter an int
(`Wrap`) and the pattern index in the config.
`ExactInv` says where the list stands: before a token it is the meaning of the tokens
before; in a range it is that and as many numbers as the counter is above the lower
bound, unless the range is up to the largest int; in a glob it is that and the
matches of the patterns passed (`MatchesOf`); after an error it is empty, and the
token is to blame. That the list is a *beginning* of the meaning at every moment is
`BeginsIsPrefix`. `WidthIs` is the padding rule: the code's maximum over both bounds
and the number at hand is the longer bound's length alone, because a number in the
range has no more digits than the upper bound (`DigitsGrow`).

`Digits`, `MatchesOf` and `Meaning` are recursive functions, and the library's theorems
about those cannot be instantiated here. The induction is therefore written out:
`Inductive` is induction over the natural numbers for a *set*, from their
well-foundedness; `RecursionExists` and `RecursionStops` get from it that the
recursive equations have a solution, and `DigitsAre`, `MatchesAre` and `MeaningIs` that
these three functions satisfy theirs.

### What is only model-checked

* Liveness under fairness: `Termination`, `RunEnds`, `ApplyReturns`, `CallsReturn`,
  `LoopsEnd`, `SilenceIsNoticed`, `EveryCopyEnds`, `SessionsEnd`. The provers do not
  reach `ENABLED`, which weak and strong fairness are defined by.
* The violated properties of section 4.

Every invariant and action property that a passing run checks, and the refinement, is
a theorem.

## 6. Plan

Done: every component of section 1 but those below is modelled, and every
safety property that holds is proved. A possible extension is an abstract
specification of running a command, implemented by `ShellRun` and by `Session`.

Not modelled: the parsers of SSH config and known_hosts files as text (negated
patterns, `@cert-authority`, `%h` and `~`), cryptography and authentication, Docker
image contents and key generation, `NewPath`, `CleanPath` and `Quote` (string
handling), the file system calls that pass one call on (`Chmod`, `Chown`,
`Chtimes`, `Remove`, `Rename`, `Symlink`, `Truncate`), the variables of a host
(map accesses; two writers at once end the process), logging, and the wording of
errors.
