# A specification of go-networkfs

go-networkfs puts eight kinds of remote storage (FTP, SFTP, SMB, S3, WebDAV,
Dropbox, Google Drive, OneDrive) behind one Go interface, `api.Driver`, and
offers it to other languages as C libraries and to people as a terminal
browser. This directory models the parts of it whose behaviour is more than
one request long: reconnection, multi-request operations, caches, tokens,
uploads, counters read beside their writers, and a user interface whose answers
arrive in their own time. TLC checks the models on small instances; TLAPS
proves the safety properties among those that hold for every instance
(`SocketDriver`'s, but for its type, with one caller).

Paths below are relative to the repository (`src/` in `PROJECT.json`).

## 1. The system

| Component | Keeps | Operations | What is hard about it |
|---|---|---|---|
| FTP, SFTP, SMB drivers (`ftp/ftp.go`, `sftp/sftp.go`, `smb/smb.go`) | `connected`, one client, a root path; no lock; FTP also a pipe and a goroutine per open file | `Mount`, `Unmount`, `Stat`, `ListDir`, `OpenFile`, `CreateFile`, `Mkdir`, `Remove`, `Rename`, most inside `withReconnect` | a connection lost before or after the server acted; the retry meets its own work; a failed dial leaves a nil client; `Remove` is two operations; several callers; FTP's streams beside a reconnect |
| S3 driver (`s3/s3.go`) | the client and a prefix | the same, over object calls | no rename and no directory in S3: both are sequences of calls, any of which may fail, with others writing meanwhile |
| Google Drive driver (`gdrive/gdrive.go`) | token, HTTP client, path → id cache | the same, after resolving a path | the cache outlives renames; answers are cached after another caller made them old; a lookup that failed is taken for absence; lost replies |
| OneDrive driver (`onedrive/onedrive.go`) | access and refresh token under `tokenMu` | the same, one request through `do()`; uploads through `uploadWriter` | concurrent refreshes of a rotating token; retries; chunked uploads with lost answers; a temporary file |
| Dropbox, WebDAV drivers (`dropbox/`, `webdav/`) | a library's client | the same, one library call each | writers that outlive the mount; an `Unmount` between the guard and the call; WebDAV's `Remove` sends a second request |
| Mount manager, registry (`pkg/api/driver.go`) | map mount id → driver; no lock | `Mount`, `Unmount`, `Get`, `Stats`, `RegisterDriver`, `GetDriver` | look-up, delete and unmount are separate steps; data race on the map |
| Transport statistics (`pkg/api/transport.go`) | four atomic counters per mount | `RoundTrip`, body reads, `Snapshot`, `CountingConn` | four loads among concurrent adds |
| Dispatcher archive (`cmd/networkfs/main.go`) | the manager | one C function per operation | reports results as a number; several host threads, among them a 1 Hz poller of the statistics |
| Per-driver archives (`*/cmd/*/main.go`) | one global driver | one C function per operation | a second mount replaces the first |
| Terminal browser (`cmd/tui/`) | the bubbletea model, the image on the terminal | keys, and messages from commands run by goroutines | messages arrive in any order; the image lives outside the text |
| Filesystem helpers (`pkg/fsutil/`) | nothing | `Walk`, `Glob`, path functions | ordering promised and not kept |
| cgo helpers, mock services, examples | nothing of interest | | |

How they meet: the host's threads call the dispatcher's exports, which look the
driver up in the manager's map and call its methods on the calling thread.
HTTP drivers send through a `CountingTransport`, whose counters the dispatcher
reads through `Stats`. The browser calls one driver directly, from several
goroutines at once (a listing, a preview, the unmount of its `q` key). Drivers do not
know of one another. Nothing is persisted by the program: there is no crash
recovery; what a crash leaves behind is on the servers.

What would make each component correct is stated in its module and, with the
hazards it answers, in `PROJECT.json`.

## 2. The modules

Each module is a state machine of one component: its struct fields are
VARIABLES under their names, an action is the code between two points where
another goroutine can be noticed (a network call, a channel, an unlocked
access). A comment `Mutant:` marks a definition that is not the code: a
plausible error of the named action, used to see that the properties notice it.

| Module | Code | State | Actions |
|---|---|---|---|
| `FileSystem` | none: what a mounted driver promises its callers | the server's paths; per caller its call, whether it took effect, and its answer | `Call`, `Act`, `Empty`, `Find` (a success of what was already so), `Return` |
| `FileWrite` | none: what the writer of `CreateFile` promises | bytes accepted, the server's file, what `Close` returned | `Write`, `Store`, `Close` |
| `SocketDriver` | `ftp.go`, `sftp.go`, `smb.go` | `connected`; `held`, the one, two or three fields that hold a connection (`d.client`; `d.client`, `d.sshConn`; `d.shareFS`, `d.session`, `d.conn`); dialled and closed connections; the server's paths; per caller its place, field, request, attempt and answer | `Mount`, `MountRooted`, `MountRefused`, `MountForgets`; `Unmount`, `Unmounted`; `Begin` (the guard of each operation), `Attempt`, `AttemptOnNil`, `Served`, `Refused`, `ConnError`, `OtherError`, `Redial`, `RedialFails`; and, for `withReconnect` and `Unmount` alike, the pass over the fields: `CloseField`, `ClearField`, `PassField` (over a nil one) |
| `HTTPDriver` | `dropbox.go`, `webdav.go` | `connected`, `client`, the server's paths; per caller its place, request, number of calls sent and answer | `Mount`, `MountConnected`, `MountFails`, `Unmount`, `Unmounted`, `Begin` (the guard), `Close` (a writer's), `Send`, `SendOnNil`, `Served`, `Refused`, `Lost` |
| `FtpStream` | `ftp.go`: `OpenFile`, `primedReader`, `CreateFile`, `ftpWriter` | the client, the two pipes, who waits at which end, the server's file | the caller's `CreateFile`, `Write`, `Close`, `OpenFile`, `Read`, `CloseReader`; the goroutines' steps; another caller's `CloseClient`, `ClearClient`, `Dial` |
| `S3Store` | `s3.go` | the bucket, per caller a request and what its loop has left | one action per object call, each failing before or after it acted |
| `GDriveCache` | `gdrive.go` | Drive's files by id, `pathCache`; per caller its request, the walk of `resolvePath`, and the entries it has still to write | `LookWhole`, `Look`, `Query`, `QueryFails`, `WalkEnds`; `Stat`, `List`; `Replace`, `Create`, `Mkdir`, `Remove`, `Rename` with the reply arriving or not; `Remember`, one write of the cache |
| `OneDriveCalls` | `onedrive.go`: `do`, `ensureToken`, `refresh`, `Mount`, `Unmount` | tokens, expiry; Microsoft's live tokens and grants | `Mount`, `Unmount` (clears the token), `Unmounted` (clears `connected`), the steps of `do` and `refresh`, and the service's refusals, expiry, revocation |
| `OneDriveUpload` | `onedrive.go`: `uploadWriter` to `cancelUploadSession` | memory, temporary file, chunk and attempt; the server's session | `Write`, `Close`'s two ways, one action per outcome of a chunk, `Cancel` |
| `Dispatcher` | `driver.go`, `cmd/networkfs/main.go` | the map, each instance's state, per caller an export in progress | each export in the steps at which others see the map or the driver; `MapFault`, the Go runtime's end of a process with a map race |
| `TransportStats` | `transport.go` | the four counters, requests or socket calls in flight, a snapshot in progress | one action per atomic add and per load, of `CountingTransport` and of `CountingConn` |
| `Tui` | `cmd/tui/main.go`, `preview.go` | `screen`, `cwd`, `entries`, `browseIdx`, `preview`, commands in flight, what the terminal shows | one action per key and per message |

`X_proofs` holds the theorems of `X`; those of `OneDriveCalls` and
`OneDriveUpload` are in `OneDrive_proofs`, those of `Dispatcher` and
`TransportStats` in `Library_proofs`. (`OneDriveUpload` and `TransportStats` name
their state machines `Writer...` and `Stats...`, so that the two of each pair can
be extended together.) `MCX` gives a module's constants values for TLC.

**Refinement.** `SocketDriver` and `HTTPDriver` each instantiate `FileSystem`
(`FS`), with their own variables for its state and the map `told` for its
answers: refusals, lost replies and recovered panics are all "failed" to a
caller. A failed call may have taken effect; a successful one has, while it was
open; only a removal may take effect twice. Two parameters say in what the
drivers fall short of this: one whose `Remove` empties directories is
`recursive` (SMB, Dropbox, WebDAV), and one that reports success of what was
already so is `forgiving` of that operation (SMB of a removal of nothing, WebDAV
of that and of a `Mkdir` where something is). `SocketDriver` implements
`FileSystem` with one caller, `HTTPDriver` with any number. `OneDriveUpload` and `FtpStream` instantiate `FileWrite` (`W`), the
first with `Whole` true (the file before stays until the new one is complete),
the second streaming. All four are `FileSystemSpec` or `UploadSpec` among the
properties of a run, and all four are proved.

`FtpStream` and `SocketDriver` are two views of one struct: what the first
calls the other caller's `CloseClient`, `ClearClient`, `Dial` and `DialFails`
is the second's `CloseField`, `ClearField`, `Redial` and `RedialFails`. They meet
in the `client` field only, as in the code, where a stream does not go through
`withReconnect`.

Two things are the same in all modules. A call that fails may have been
carried out: the service's act and the reply are separate choices. And
variables marked *history* are not in the code: they record something a
property has to speak of, and no guard but a bound reads them, except that `acted` in
`OneDriveCalls` is also the service's memory of a request it has carried out.

Undefined behaviour: `OneDriveCalls` lets the refresh token be read torn from
the write beside it (`Misread`; `refresh` reads it without the lock, and a Go
string is two words), and `Dispatcher` lets two conflicting uses of the map end
the process. `SocketDriver` interleaves its unlocked accesses but takes each
read of a pointer to be whole.

What is abstracted: contents of files (a number), metadata, wording of errors
(what is kept is how the code classifies them), prefixes and root paths
(constant), marshalling to C, drawing. A page of a listing is one step.

## 3. What TLC checks

Ten runs pass, two show a disagreement. `PROJECT.json` names each run's
properties and, for every property of a passing run, an error of the code that
it notices.

| Run | Instance | Shows |
|---|---|---|
| `SocketSerial` | one caller, two paths, three handles, the three drivers | no connection is leaked by any order of losses, failed dials, failed mounts and unmounts, but one that a second mount replaced; the driver is a `FileSystem`, SMB's success of removing nothing excepted; FTP and SFTP never empty a directory; the only nil client an operation meets is in the second half of `Remove`; every call returns |
| `HTTPDriver` | two callers, two paths, both drivers | the driver is a `FileSystem` with `Unmount` and `Mount` at any time: its removals recurse, and WebDAV's `Mkdir` and `Remove` may succeed without effect; a nil client is used only by a call or writer that an `Unmount` overtook, and ends the process only in Dropbox |
| `FtpStream` | one writer and one reader of two bytes each, two clients | a `Close` that succeeds has stored everything, whatever happened to the client; a reader is told of the end only when it has everything; a `Write`, `Close`, `OpenFile` and `Read` return, and a reader closed early leaves no goroutine; the process ends only when the client was cleared between a stream's guard and its goroutine |
| `StatsPoll` | two requests or socket calls at a time, three in all, two bytes each way | an HTTP mount's snapshot never shows more responses than requests, nor bytes in a direction in which nothing was counted; no snapshot goes back |
| `Dispatch` | two callers, two ids, three driver instances | an id never leads to a driver that was unmounted, nor two ids to one; a connected driver can still be unmounted unless a mount over it, or a delete that came late, displaced it |
| `S3` | two callers, two directories with a file each, two puts, three calls | a rename at or below whose paths no other call writes keeps every object under one of its names until it reports success, and then everything under the new; `Remove` deletes the object of its path and nothing below it, and when it succeeds nothing is left, unless its first look at the object failed |
| `DriveCache` | two callers, two names and one below the first, two ids, any tree to begin with, three calls | the cache is wrong only below a path that was moved or removed, between the two writes of a rename, or where another call was about the path while it was moved; an upload replaces a file at another path only through such an entry |
| `Calls` | two callers, one retry, three tokens | the mount never loses its grant, whatever rotation does; a call that fails changed nothing unless an answer was lost; only a call under way as `Unmount` finished, or that stored one while it ran, leaves a token in an unmounted driver; every call returns |
| `UploadWrite` | memory 3, chunks of 4 in units of 2, two retries, 15 bytes | the writer is a `FileWrite` that commits as a whole: the server never has part of a file, and success means everything accepted is stored; no temporary file and no avoidable session is left; `Close` returns |
| `Browser` | two driver types, a root of three entries and a directory, five commands | the cursor is on an entry whatever arrives; for a user who waits, listing, directory, preview and cursor agree, and the terminal shows the image that is being previewed and no other, unless an error replaced its preview |
| `SocketTwoCallers` | two callers, one path | fails: two dials, one connection left open |

**Bounds.** Every bound is a constant with `bound` in its comment, and appears
in the guard of the action it limits.

- `Handles`: a dial with none left can only fail. `Remove` redials at most
  twice; three handles let it use a mount's and both. A dial takes the next name
  (`CHOOSE` in `Dialled`): the names mean nothing, and no other order of them
  shows more.
- `Host` (`SocketSerial` has both, the other runs none): whether a driver that was
  mounted is mounted again, and whether it is unmounted. `SocketTwoCallers` has
  neither, so what it shows needs only operations.
- Paths (`HTTPDriver`, `SocketSerial`): a rename names two; a request that meets
  another's work shares one with it.
- `MaxBytes = 2`, `MaxClients = 2` (`FtpStream`): two bytes are the one that
  `OpenFile` reads ahead and one of a later `Read`, a transfer that fails between
  them, and a `Write` that the goroutine reads in two pieces; the second client
  is the one dialled after the stream began on the first.
- `MaxPuts`, `MaxCalls` (S3): what has to be set up is a file and a directory,
  and beside them one call of another caller. Two directories side by side
  allow a rename of a file, of a directory, and onto an existing name.
- `MaxCalls` (Drive): three are one that fills the cache, one that moves what
  it found, and one that uses what is left; with two callers any two of them run
  together. The run starts from every tree of two files, so that no call is spent on
  making one. Its constraint `OnCourse` leaves a behaviour in which a reply was
  lost or a wrong id used: the properties promise nothing of it. `InBounds` leaves
  orders of calls that show nothing more: a `Stat` is the call that fills the cache,
  so it comes first; the third call uses what the others left, so it makes no folder,
  and moves nothing while another caller's move is in progress (two calls are
  enough for two moves side by side).
- `Ops = {"once"}` in `Calls`: an operation that finds its own work in the way
  when it is repeated is the hardest; the others differ only in what they do
  when repeated. Three tokens let a mount's refresh be followed by one of each
  caller.
- `MaxBytes = 15` is more than three chunks; `MemCap = 3` and `ChunkSize = 4`
  make all of: nothing, memory only, first spill, exactly one chunk, exactly
  three, and a short last chunk. The code's are 4 MiB and 10 MiB.
- `MaxCommands = 5`: listing, preview, its image, its erasure, and a listing.
- `Drivers`: a mount, the mount that replaces it, and one beside them.

**Deadlock** is checked except in `S3`, `DriveCache`, `Browser`, `UploadWrite`
and `FtpStream`: there behaviours end,
because the calls or commands are used up, because the writer or both streams
are closed, or because the user quit. (`NobodyIsStuck` says for `FtpStream` what
a deadlock check would.)

**Symmetry** is used for callers, paths, handles, ids and requests, in runs without
liveness properties.

**Fairness.** Only a caller in the middle of a call is treated fairly, never
the choice to make one.

- `SocketDriver`: weak fairness of each caller's `Continue`. Goroutines are
  scheduled; every dial ends (5 s in each driver) and every request. FTP's have
  a timeout of 30 s; SFTP and SMB set none for requests, so there the justification is that the kernel
  reports a dead peer. A server that keeps a connection alive and never answers
  is outside it.
- `FtpStream`: weak fairness of the writer's goroutine and its caller's wait, of
  the reader's goroutine, and of the reader's wait. The FTP library's reads and
  writes have a timeout of 30 s (`ftp/ftp.go:226`), so `Store` and `Retrieve` end.
  The callers themselves need not call again, and need not close: a writer that
  is never closed keeps its goroutine, in the code as in the model.
- `OneDriveCalls`: weak fairness of each caller's `Step`: the HTTP client has a
  timeout of 60 s, and waits between attempts are bounded.
- `OneDriveUpload`: weak fairness of the steps of `Close`, for the same reason.

The other runs claim safety only.

## 4. Disagreements

The two failing runs:

1. `SocketTwoCallers`. `README.md:139` says that drivers serialise on a single
   connection per mount. No driver has a lock. Two callers of FTP whose requests
   fail together both close the client (`ftp/ftp.go:288`); one sets the field to nil
   and dials, and then the other sets it to nil too (`:289`): the new connection is
   forgotten while it is open. SFTP and SMB, whose fields are looked at one by
   one, have the same in each.
2. `DispatchWrite`. `cmd/networkfs/main.go:215` says 0 means success. The
   function defers the writer's `Close` and drops its error, and for most drivers
   `Close` is what stores the file.

Others were met while modelling. The models contain the behaviour, and where a
passing property would otherwise fail it names the exception:

- S3's `Remove` may report success with the file untouched: `s3/s3.go:348` takes
  any error of its look at the object to mean there is no such object, finds
  nothing below, deletes a placeholder that is not there (no error in S3), and
  returns nil. (`misled` in `RemoveIsExact`.)
- Drive: `gdrive/gdrive.go:778` says an upload replaces the file *at the same
  path*. `Rename` forgets the renamed path, not those below it, and
  `gdrive.go:869` answers from the cache: an upload to an old path below a renamed
  folder replaces a file that is elsewhere by now. (`Unsettled` in
  `UploadHitsItsPath`.)
- Drive: the cache has a lock, but a walk asks Drive and writes the answer later
  (`gdrive.go:904`). When another caller renames or removes the path in between, the
  old id comes back after the entry was forgotten, and stays until the path is
  moved again or the mount ends. (`crossed` in `Unsettled`.)
- Mounting the driver of a per-driver archive twice leaves the first connection
  open for ever, if it has one (`ftp/cmd/ftp/main.go:98` and its like;
  `orphaned`). A WebDAV mount that fails leaves its client in the driver
  (`webdav/webdav.go:118`; `MountFails`): harmless in a fresh one, and
  in one that was mounted the new client takes the place of the one that worked.
- FTP: the goroutine behind a stream reads `d.client` when it gets to run. An
  `Unmount` or a reconnect of another caller just after `CreateFile` or `OpenFile`
  returned the guard makes it nil, and the panic ends the process
  (`ftp/ftp.go:396`, `480`; `PanicOnlyWhenLate`).
- Dropbox: a writer closed after `Unmount` uses a nil client
  (`dropbox/dropbox.go:342`) and the panic is not recovered; WebDAV's looks at the
  client again and recovers besides. (`PanicOnlyWhenOvertaken`.)
- A `Close` that failed and is called again returns nil in Dropbox's and WebDAV's
  writers (`dropbox.go:335`, `webdav.go:284`); FTP's gives the first answer again.
  (Writers are closed once in the models, as the exports do.)
- WebDAV's `Remove` sends a second DELETE after any failure of the first, a lost
  reply included, and may so remove what another caller has put there meanwhile:
  `FileSystem` allows a removal to act twice because of it.
- With two callers, `Unmount` between another's clear and its dial leaves the
  new connection open after the mount is gone. (`UnmountCloses` is checked with
  one.)
- `Remove` after a first half whose redial failed uses a nil client and panics,
  where `ftp/cmd/ftp/abi_test.go:161` has an unmounted driver return an error
  "rather than panicking"; in that state the driver also stays connected with
  a nil client, so each later operation answers not connected until it is mounted
  again. (`PanicOnlyInFallback`.)
- `docs/DRIVERS.md:71` says of `Remove`: "Don't recurse." Three drivers do. SMB's falls
  back to `RemoveAll` after any error (`smb/smb.go:384`); Dropbox's `DeleteV2`
  (`dropbox/dropbox.go:375`) and WebDAV's DELETE (`webdav/webdav.go:336`, `339`) take a
  directory's contents with it, and neither driver looks first. (`recursive` in
  `FileSystemSpec`, of both modules.)
- Success without effect: WebDAV's library takes a 405 of MKCOL and a 404 of DELETE for
  success, so `Mkdir` of an existing name and `Remove` of a missing one report it, and
  SMB's `Remove` of a missing path does so through `RemoveAll`. (`forgiving` in
  `FileSystemSpec`; `FoundDone`.)
- `Snapshot` "returns a consistent read of the four counters"
  (`transport.go:53`): the four need not have been true at one time. What does
  hold is what `StatsPoll` checks, and of a socket's counters less: bytes may
  show before their call is counted.
- `fsutil.Walk` promises lexical order (`pkg/fsutil/walk.go:25`) and visits the
  entries as the driver lists them. (Not modelled.)
- `networkfs_openfile` ends its loop on any error and returns 0 with part of the
  file (`cmd/networkfs/main.go:205`; the step `ReadEnds`).
- The poller's `Get` beside a `Mount` is a data race on the map, which the Go
  runtime may answer by ending the process; `main.go:316` expects the poller to run during
  teardown. (`MapFault`.)
- S3: renaming a directory into itself deletes what it copied. (`Apart`.)
- Drive: a lookup that fails for a passing reason makes an upload create a second
  file of the same name (`gdrive.go:784`; the step `Unresolved`).
- OneDrive: a 401 on an attempt after the first is an error, where
  `onedrive_graph_test.go:346` says a 401 is answered by a refresh.
- OneDrive: `Unmount` clears the token under the lock and then `connected` without it
  (`onedrive/onedrive.go:132-135`). A refresh in flight, and one of a call that begins
  between the two, stores its token after it was cleared. (`stray` in `UnmountForgets`.)
- The browser: `cmd/tui/main.go:420` says that a lingering image goes away when the user
  navigates. It is erased if the preview that is cleared is an image (`main.go:463`).
  Opened a second time, with an error this time, an image is no longer the preview, and
  stays on a Kitty terminal whatever the user moves to, until another is drawn.
  (`lingers` in `TerminalShowsPreview`.)
- The browser: a listing, a preview or an image that is late replaces a newer
  one; the command that draws may run after the one that erases.
  `main_test.go:395` says a stale preview is never shown beside the wrong entry.
  (`hasty`.)
- `docs/DRIVERS.md:68` does not accept buffering a whole upload in memory; S3,
  Drive, Dropbox and WebDAV writers buffer it. (Not modelled.)

## 5. What is proved

All theorems are for every value of the constants that satisfies the modules'
named assumptions: any number of callers, paths, tokens, bytes, chunks, any
bounds. Each is `Init => Inv`, `Inv /\ [Next]_vars => Inv'` and `Inv => property`.

- **`SocketDriver_proofs`**. `TypeCorrect` for any number of callers. The
  others under `Serial` (there is one caller), without which `SocketTwoCallers`
  refutes the first of them. `ConnectionInv` adds to "one
  connection is open" what the fields are at each place of a call
  (`FieldMatchesPlace`): all hold one connection, or, while it is being taken down, none
  does above the field that is next and all do from there; its socket is closed before
  the last is cleared. Without it the redial could not be seen to replace a
  closed connection. The type invariant says besides which callers have a call pending
  (`PendingInCall`), which tells `withReconnect`'s pass over the
  fields from `Unmount`'s. `ImplementsFileSystem` is by step simulation: each step maps
  to one of `FileSystem`'s or to a stutter. It rests on `RemoteInv`: a request carried
  out has left the server such that carrying it out again changes nothing (`Done`),
  which is why the retry is a stutter. From it follows what a caller may conclude of an answer
  (`AnswersAreFinal`): a success was carried out while the call was open, or is one that
  needed no effect (SMB's removal of nothing), and the
  server changes only where a call that has not answered names the path. `CallsAreShort`,
  for any number of callers again, gives each place of a call the number of steps that
  may follow it (`Left`, at most ten and four for each field: 14, 18 or 22): each step
  lessens its caller's and none of another's adds to it.
- **`HTTPDriver_proofs`**. For any number of callers. `CallInv` says that an open
  call has a client or was overtaken by an `Unmount`, and that only a removal is
  ever sent a second time; the first gives `PanicsAreOvertaken`, the second the
  refinement, whose `Act` happens once for everything else, and whose `Find` is WebDAV's
  success of what was already so. `AnswersAreFinal` is proved of the refinement as
  above, here with any number of callers: for Dropbox a success was carried out; for
  WebDAV it was, or it is of a `Mkdir` where something was or a `Remove` of nothing.
- **`Library_proofs`**. *The statistics*, for any number of concurrent requests:
  the invariant relates each load already done to the counters as they are now;
  for HTTP it holds because `Snapshot` loads bytes before operations and responses
  before requests, against the order in which `RoundTrip` adds. A cardinality
  argument counts the requests in flight. That no snapshot goes back holds of both.
  *The mounts*, for any number of threads, identifiers, drivers and pieces of a
  file: `MapLeadsToUsable` and `NoDriverIsLost`. Nothing locks the map, and
  `Unmount` looks, deletes and closes in three steps. The invariant says why that
  is safe: an instance being mounted is known to its caller only, and stored once
  (`Fresh`); so a caller about to delete a driver finds it, if at all, under the
  identifier it looked at (`DeletesOwn`); and whatever a caller holds has been
  made and is as far as the caller has brought it (`DriversKnown`).
- **`FtpStream_proofs`**. For files of any length and any number of clients.
  `EndIsTheWholeFile`, `PanicsAreLate`, `ImplementsFileWrite`. The invariant has a
  part for the client, one for the writer's pipe and one for the reader's, each
  relating the caller's end to the goroutine's: what was accepted is stored or waits
  in the pipe, and after the goroutine's "ok" it is what the server confirmed;
  what was fetched is delivered, read ahead, or waits. The one step they share is the
  clearing of the client, which marks as late whoever has started and not run. A
  step of another part leaves a part alone, so each action is proved against one.
  `SuccessStands` is read off the refinement: after a `Close` that succeeded the
  server's file does not change. `NobodyWaitsInVain` needs more of the invariant
  (`WriterServed`, `ReaderServed`: a `Write` that waits has bytes to be read and
  a pipe that is open, a goroutine that ended has closed both ends): it lists, for each
  place in which a call waits, the step of the other side that it waits for.
  `StreamsRunOut` is the measure: every byte still to be read, sent, fetched or
  delivered, and the places still to come.
- **`S3Store_proofs`**. For any bucket, paths of any depth, and any number of
  callers. `RenameLosesNothing`, `SuccessMovesAll`, `RemovesExactly`. The invariant
  follows a rename's objects through its loops (`RenameInv`): while it copies,
  those listed so far are at their new keys; while it deletes, all are, and those no
  longer in the list are gone from the old; nothing else has changed but below the
  destination (`Untouched`). It holds of a call nobody disturbed: other callers may do
  what they like elsewhere, but such a call has its region of the bucket, the keys at
  and below its paths, to itself (`Alone`). What carries it over their steps is a frame
  lemma: an action of a caller writes only what its request touches (`WritesTouched`),
  and that is outside the region (`OthersStep`). Under it are facts about keys: the
  source's and the destination's are disjoint when neither is inside the other (`Apart`),
  and the renaming of keys is one to one. `MarksAreEmpty` is needed for `Remove`: a placeholder is never a file.
- **`GDriveCache_proofs`**. For any number of threads, paths and files.
  `CacheStaleOnlyBelowMoved`, and the action property `UploadsHitTheirPath`. The
  invariant is in two parts. `Typed` holds always: a call resolves what its request
  asks for, in order (`Orderly`), has the id of the folder it moves a file out of
  only when it needs it (`Sourced`), and brings answers only about its own paths
  (`NewsKnown`). `Right` holds until something goes astray: whatever id is held, in
  the cache, by a walk, for a call or in an answer, is at the path it is held for,
  unless that path is unsettled. All four are needed at once, since each is where
  another gets its ids from. It is not inductive with one notion of "unsettled" for
  all four: a path about to be forgotten is settled again when it is forgotten, while another
  thread's answer about it is still to be written; hence the stronger reason that an
  answer needs (`Lasting`), and the record `crossed`. Below it are facts about any
  tree: a file is at one path at most, a new file moves no other, and a subtree that
  goes or moves changes the paths below it and no others.
- **`OneDrive_proofs`**. *Calls*, for any number of callers and retries.
  `GrantNeverLost`: the refresh token Microsoft accepts is with the driver or on
  its way to it (`Held`); a token on its way is known to one caller (`OnItsWay`); a
  mount has the driver to itself (`MountAlone`); only a first attempt refreshes after
  a 401 (`FirstAttempt`, for the bound on attempts). `FailuresChangeNothing`: what
  the server carried out, an answer left unsaid, or the call has returned its
  success (`History`). `UnmountedHoldsNoToken`: unless a call was under way at the second step
  of `Unmount` or stored a token between the two, the token is 0 from the first on
  (`Forgotten`), because in a driver that is not mounted nothing but a mount is under
  way that could store one (`Deserted`).
  `RefreshesAndRetriesEnd`: the attempts left and the place in an attempt bound the
  steps of a call (`Left`); a refresh after a 401 ranks below the request that
  met it, which is sound because only a first attempt has one.
  *Uploads*, for files, memory, chunks and retries of every size. `SuccessStores`,
  `NoPartialFile`: what was accepted is in memory or the temporary file (`Kept`); the
  server is at most one unacknowledged chunk ahead of `sent`, and its file is
  complete exactly when the session is finished (`InStep`). `ImplementsFileWrite` follows
  from the same invariant by step simulation. `LeavesNothingBehind` adds what has
  been sent when the session is the client's to cancel (`NothingSent`). `UploadsEnd`
  orders the steps of `Close` by what is unsent, then by what may still be spent on the
  chunk; it needs that a chunk is never empty (`WantBounds`).
- **`Tui_proofs`**. `CursorNeverDangles`, whatever arrives in whatever order. For a
  user who waits, `ScreenIsConsistent` and `ImagesFollowPreviews`: while nobody was
  hasty at most one command is in flight, it is about what the screen shows
  now (`UpToDate`), and preview, listing and image agree (`Waited`).

A helper on sequences or trees is stated so that it needs no induction over data:
a path of a file is a *line* of files, one per name (`At`), not the result of a
recursion, and a folder's contents are the least closed set. Where an argument
is by induction on depth (two paths of one file, a line that leaves a subtree),
it takes the least number at which it would fail (`LeastNumber`, from the
library's `WFMin` over the naturals).

Only model-checked: the liveness properties `CallReturns` (of `SocketDriver` and of
`OneDriveCalls`), `CloseReturns` and `NobodyIsStuck`. They rest on fairness and on
which steps are enabled, which is beyond the prover. What can be said of them without
is proved: `CallsAreShort`, `RefreshesAndRetriesEnd`, `UploadsEnd` and `StreamsRunOut` are
the measures by which each comes to an end, and `NobodyWaitsInVain` that the two ends of
a pipe never wait for each other. Every other property of a passing run is a
theorem.

## 6. Not modelled

- The Drive driver's token (`doRefresh`, `authHeader`): two callers may refresh at
  once, and each gets a token that works, Google's refresh tokens being used any
  number of times.
- `GetThumbnail` of the three drivers that have it (Dropbox, Drive, OneDrive): a read.
- What a library does inside a call: `gowebdav`'s creation of missing parents and
  `golang.org/x/oauth2`'s refresh in Dropbox and WebDAV calls, the pool of connections in
  `goftp`, the readers and writers that SFTP and SMB hand out.
- Requests a driver answers by itself (the root's `Stat` in FTP and Dropbox).
- The `openfile` and `writefile` exports of the per-driver archives, which have the
  loops of the dispatcher's; their `mount` is in `SocketDriver` and `HTTPDriver`.
- `pkg/fsutil`: sequential, without state, and reached by its own unit and
  fuzz tests. Form typing, drawing and image encoding in the browser. The cgo
  helpers, mock services, tests and examples have no state of their own.

## 7. What is left

Done: reconnection, the HTTP drivers, FTP's streams, the dispatcher, the
counters, S3, the Drive cache, OneDrive's calls and uploads, the browser; the
two abstract specifications and their four refinements; the proofs of section 5,
which state every safety property of a passing run and the safety half of its
liveness properties.

What could be added:

1. `SocketDriver` with several callers: that connections beyond the one in the field
   are at most as many as dials that overlapped.
2. `GDriveCache` beyond the first reply that is lost: for which paths the cache is
   still right.
3. The three gaps that section 6 names in Drive's token, `GetThumbnail` and
   `pkg/fsutil`, should they come to have state of their own.
