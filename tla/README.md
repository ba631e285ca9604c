# Verification of bubba-admin

bubba-admin is the administration software of a small home server: a PHP web
interface with its JavaScript pages, the Perl, Python and C++ back ends it calls,
and the daemons among them. This directory holds TLA+ models of its stateful core,
the TLC runs that check them on small instances, and TLAPS proofs of their safety
properties for instances of any size. `PROJECT.json` maps every definition to the
lines of `src/` it stands for.

Contents: 1 inventory, 2 hazards, 3 modules, 4 runs and bounds, 5 fairness and
other assumptions, 6 proofs, 7 findings, 8 what is not modelled, 9 plan.

## 1. Inventory

### Disk daemon (`bubba-backend/web-admin/bin/diskdaemon.pl`)

*State.* In the daemon process: `$is_running`, two timers (one periodic, one ten
second countdown), the connections of the clients. In shared memory: `%status`
(`overall_action`, `done`, `status`, `progress`, `error`, `is_idle`), which one
forked worker writes while the daemon reads it. On disk: the socket `SOCKNAME` and
`PIDFILE`.

*Operations.* `on_read` for five job actions and for `progress` and `status`;
`on_return` and `on_error` when a worker ends; `on_tick` and `on_expire`, by which an
idle daemon goes away; `HUNTSMAN` on SIGINT and at the end; the scripts of the five
jobs, `add_to_lvm`, `format_disk`, `create_raid`, `restore_raid_broken_external`,
`restore_raid_broken_internal`.

*Hard.* Two processes share `%status` without a lock; the flag that admits jobs is
set in one callback and cleared in another; the daemon may exit between two
requests; a job is a script of up to 22 commands, not one of which is undone when a
later one fails.

*Correct if* at most one job runs at a time and the flag follows the worker; no
client is told that a job is done when it is not, or told it without the result;
the daemon does not go away while a job runs and does go away at some point when
none does; every request is answered; a job that fails or is cut off at any command
leaves a system that boots with its `/home`; a recovery does not erase the data it
is meant to recover.

### Socket client (`bubba-frontend/admin/helpers/bubba_socket_helper.php`)

*State.* None but its connection. *Operations.* The constructor connects, executes
the daemon if it cannot, and retries every 4 ms without an end; `say`, `getline`,
`close`. *Hard.* Any number of PHP requests construct sockets at the same time, and
nothing locks the start of a daemon against another start or an exit. *Correct if*
the jobs of two daemons do not work at the same time, a daemon with a job is reachable,
and every constructor returns.

### Disk pages (`controllers/Disk.php`, `controllers/Ajax_disk.php`, `models/Disk_model.php`, `_js/disk_progress.js`, `_js/disk_raid.js`)

*State.* What each browser window shows; the `waiting` flag of the poller.
*Operations.* A page asks whether a job works and redirects to the progress page;
a dialog posts a job and goes to the progress page; the progress page polls until a
reply says `done`; the disk page mounts and unmounts disks. *Hard.* Each of these is
a request of its own to a daemon that may have gone since the one before; the
progress dialog cannot be closed before a reply says `done`. *Correct if* no load
hangs and every progress dialog is told of the end of the job.

### diskmanager (`bubba-diskmanager/*.cpp`, `libeutils/FsTab.cpp`)

*State.* Partitions, volume groups, arrays, mounts, `/etc/fstab`. *Operations.* One
command per call (`disk partition`, `fstab add`, `md assemble`, ...). *Hard.* Several
processes rewrite `/etc/fstab`; commands refuse a disk that is in use; some report
success whatever the tool they call says.

### Backup pages (`_js/backup.js`, `_js/remote_accounts.js`, `controllers/Ajax_backup.php`, `controllers/Ajax_settings.php`, `models/System.php`)

*State.* Three YAML files: the remote accounts, the jobs of remote accounts, the jobs
of local devices; the tables that browser windows show. *Operations.* Create, remove
and change a job; add, remove and rename an account, which takes its jobs along.
*Hard.* Each request reads a file, changes what it has read and rewrites the file,
without a lock of its own; an account is in two files; rows that are clicked may be of
jobs that are gone. *Correct if* no request touches a job or an account other than the
one it names, and windows come to show what is there.

### Backup scheduler (`bubba-backend/bubba-run-backupjobs`)

*State.* The status file, a dictionary of all jobs that a run reads when it starts and
writes back before and after each copy. *Operations.* A run per schedule, from cron.
*Hard.* Runs of different schedules overlap; the jobs change under a run; a failed
mount leaves the result variable of the job before; the file is emptied before it is
filled, by runs that no lock keeps apart; the page shows any negative result as
"currently running". *Correct if* a stored result is one of its own job and "running"
means so.

### File manager (`_js/filemanager.js`, `_js/jquery.ui.filemanager.js`, `_js/jquery.ui.throbber.js`, `_js/main.js`, `controllers/Filemanager.php`)

*State.* The folder, the rows of its table and the selection; the toolbar, disabled and
enabled by several callbacks; the open dialogs and the overlay of the modal one; the
throbber that covers the page; the requests on their way. *Operations.* Open a folder,
select, make, rename, delete, change permissions, move and copy. *Hard.* The folder that
the page names and the rows of its table change in two callbacks; Escape uncovers the
page while a request is on its way; selections are looked up again when a dialog is
confirmed; the close of a dialog that is closed already takes the overlay of another.
*Correct if* a request changes what the user chose and where the user saw it, the table
is true when nothing is on its way, and the page does not stay covered.

### Network manager (`bubba-networkmanager`, `libeutils/NetDaemon.cpp`, `models/Networkmanager.php`)

*State.* `SysConfig` in memory and on disk, the profiles and states of interfaces; the
interface that the firewall, the services and dnsmasq use. *Operations.* `set_lanif` of
the web interface moves these three and then calls `setlanif` of the daemon, which moves
the address settings and writes the file. *Hard.* `setlanif` changes its memory and
takes an interface down before it can fail; its rollback tests `res["status"]`, which
nothing sets to false before it; no side looks at what its commands return; the daemon
ends when accept times out, and starts from the file. *Correct if* after a success all
parts agree, and settings are never lost.

### Others

Notifications (`Bubba.pm`, `Notify.pm`, the dispatcher): a spool with a file per
notification, parsed and then removed. Users (`models/Auth_model.php`): an XML file
under a lock file. `backend.pl`, the updater and the hotfix worker, `firewall.pl`:
one-shot commands without state of their own. The rest of the web interface: forms
and views over the components above. CodeIgniter, libsigc++, the translations, and
jQuery with its plug-ins are third-party or data: of about 46000 lines of JavaScript,
some 5000 are of this project, and of those the pages above are the ones that keep
state over several requests.

### How they interact

    browser --HTTP--> PHP request --exec, unix socket--> diskdaemon.pl --fork--> worker
       |                  |                                   ^                    |
       | polls            | exec                              +---- %status -------+
       v                  v                                                        | exec
    progress page     diskmanager  <-------------------------------------- diskmanager, mdadm, ...
                          |                                                        |
                          +----------------> /etc/fstab, disks, mounts <-----------+

    windows --HTTP, one session--> Ajax_backup, Ajax_settings --> jobs, accounts (YAML)
                                                                      | read
    page of results <---------------- status (YAML) <---- bubba-run-backupjobs (cron)

    window --HTTP, one session--> Filemanager.php --> files

    Networkmanager.php --> firewall, services, dnsmasq
                       --exec, unix socket--> bubba-networkmanager --> configuration, interfaces

## 2. Hazards

`PROJECT.json` lists 40, each at its line, with the properties that would catch it.
The ones the modules are built around:

 * a poll loads `done` and the text in two steps while the worker stores them in two;
   `%status` still holds the last job's `done` when the next job has been accepted;
 * the countdown expires ten seconds after the tick that found the daemon idle; two
   incarnations of the daemon, one removing the files of the other;
 * a job cut off at any of its commands, then run again, or followed by the other
   recovery; commands that fail unseen; a disk mounted by the disk page under a job that
   works on it;
 * requests of several windows that read, change and rewrite one file, from rows that
   are gone; an account that is in two files;
 * a scheduler that writes back what it has read long ago, of a job that another
   scheduler is at, or dumps over it; a result left over from another job;
 * a page that goes on by keyboard while its requests are on their way; the late answer
   to a dialog that was closed, which takes the overlay of the next one;
 * a move of the local network that fails half way, and is tried again, by a daemon
   that may have ended and started from an older file.

Six have no property, each with its reason: the answer to an accepted job, which can
carry the flag of the job before (no page looks at it there), the listen queue, the
unlocked rewrite of `/etc/fstab`, its map by device, the notification spool, and the
look-up of a user name before the lock.

## 3. Modules

    JobLock          what one disk daemon promises about jobs (abstract)
    DiskDaemon       one daemon, its worker, %status, its clients; implements JobLock
      DiskProgress   extends DiskDaemon: the browser windows are its clients
    DaemonSpawn      incarnations of the daemon, the socket and the pid file
    RaidJobs         the scripts of the jobs, the disks, swap, services and fstab
    JobTable         what the backup pages promise (abstract)
    BackupFiles      windows, requests and files of the backup pages; implements JobTable
      BackupRun      extends BackupFiles: the runs of the scheduler over these files
    FileManager      the page of the file manager, its requests and the files
    LanInterface     set_lanif of PHP and setlanif of the network manager
    *Proofs          the theorems about a module (all eight detailed ones have one)
    MC*              values of the constants for TLC

### DiskDaemon

The event loop runs one callback at a time, so a callback that makes one access to
shared memory is one action; `write_progress` makes two loads that matter and is
split: `QueryProgress` or `StartJob` enters it (`reading`), `ReadDone` loads `done`,
`WriteProgress` loads the text and answers. The worker is a program counter `wpc`,
one store into `%status` per step, in the order of the code: `reset_status`
(`ResetAction`, `ResetDone`), `AnnounceJob`, then either `ReportSuccess`, `SetDone`; or
`CatchDone`, `CatchText`; or, for `add_to_lvm`, whose failing steps return out of the try
block, `FailQuietly`; then `BecomeIdle`. The names of steps that a script stores on its
way change nothing that is told apart.

| state | code |
|---|---|
| `up`, `is_running`, `timer` | the process, `$is_running`, which of the two timers runs |
| `reading`, `seen` | the callback inside `write_progress` and what it has loaded |
| `wpc`, `wjob`, `status` | the worker and `%status` |
| `orphan` | a worker whose daemon is gone: it ends at its next store (`OrphanEnds`) |
| `request`, `reply` | what a client has said and is not answered, and the first line it will read |

Three things of the code that the model states in its own way:

 * *Relative values.* `done` and the text are named by the job that stored them
   (`old`, `ok`, `died`; `result`, or `other`). `StartJob` renames what is there to `old`
   and `other`. No guard depends on the names except that a done flag that is not `no` is 1.
 * *Error path.* `progress` and `status` have a catch block of their own (`CatchQuery`).
   A job request that dies in its try block writes its error line; whether
   `finally` calls `write_progress` after it depends on what Try::Tiny leaves in `$@`.
   The client reads one line and closes, so only the first is in the model. The
   `$is_running = 0` at the end of each job runs in the worker and clears its copy; the
   daemon's is cleared in `on_return`, which is what the model has.
 * *on_error* dies out of the event loop: the daemon ends without `HUNTSMAN`. The
   files it leaves are in DaemonSpawn.

`Fault` names the faults that may occur: `refuse` (parameters, fork, shared memory),
`die` and `quiet` (a failing step), `kill` (the worker), `interrupt` (SIGINT, which ends
the daemon with its job at work or not; the worker outlives it up to its next store,
which dies, as the shared memory is removed).

### DiskProgress

Extends DiskDaemon with `page`, the state of each window, and binds every `Say`,
`Getline` and `Spawn` of a client to the step of the page that makes it: the check in
`Disk.php` (`FindDaemon`, `CheckWorking`, `IsWorkingAnswered`), the confirmation dialog
(`Confirm`, `SubmitJob`, `JobAnswered`), the progress page (`OpenProgress`, `FindAgain`,
`AskType`, `TypeAnswered`), and its script (`AskProgress`, `InitialAnswered`,
`PollAnswered`, `CloseDialog`). The code looks for a daemon before it asks one, for the
type even twice; each look and each question is a step, and a daemon that goes in
between is started again for the question (`SpawnFor`). A reply that is null raises an
exception in the callback, which leaves `waiting` set: page `stuck`, left by a reload
only. Every behaviour of the windows is one of DiskDaemon (`PagesAreClients`, proved).

`untold` is a history: the windows whose end of a job is lost. `Missed` says when: the
daemon goes, by its countdown, a signal or a killed worker, before a poll of this window
has brought the end; or an error stands in place of a job. The countdown may well run out
between the end of a job and the next poll of a slow window: the window then finds a
daemon that knows nothing of its job, and polls for ever.

### DaemonSpawn

The opposite cut: what a daemon does for its clients is reduced to accepting a job
unless its own worker works, and its start (`UnlinkStale`, `Listen`) and its end
(`Expire`, `UnlinkPidfile`, `UnlinkSock`, `KillDaemon`) are split where another
process can come in between. `sock` and `pidfile` say whose the two files are, dead or
alive. `Connect` succeeds as long as the process that has bound the path lives;
`Exec` starts an incarnation; `Retry` is the loop of the constructor. `Interrupt` ends a
daemon in the same way with its worker at work.

Nothing restricts the interleavings: any number of requests may start daemons beside
each other and beside one that exits, and a daemon may remove the files of another
or kill what the pid file names by then. Two histories say to whom that has happened:
`crowded`, the daemons that have lived at the same time as another, and `struck`, those
interrupted with a job at work. That there is one job at a time is false and is a finding;
what holds is `JobsKeepApart`: two jobs need a crowded or a struck daemon. A daemon that
has met no other one has both files leading to it (`JobsAreReachable`), whatever
files the one before it had left.

### RaidJobs

`Script` gives each job the order of its commands, and each command is an action with
its guard (`Impossible`: when the tool refuses), its effect on `sys` (swap, services,
`mdadm.conf`, `/bkup`, mounts, fstab) or `disk` (physical volumes, volume group,
logical volume, superblocks, running array, file system, partition types), and the
check of its result. `CommandFails` ends a job at a command that refuses or is in `Flaky`.
`CommandMissed` is a command whose result no script looks at (`Unseen`: services, swap,
the copies of `/home`, `mdadm.conf`) and that fails: the job goes on, and the system is
as it was or half-way (`LeftBy`: some services stopped, or started). `missed` remembers
which commands of the job have failed in this way, so that a property can say what
success still means then. A failing command that ends a job has no effect, with one
exception: `CreateSimplePart` and `SetPartitionType` write the
table to the disk before they tell the kernel, so the new type may be there after the
failure (`Retyped`, `TableRefused`). A new table does not erase what is in the
partition: each lays out one partition of the largest size, where the last one was. The
internal disk is `int`, the external one `ext`; the volume that `/home` is on appears
in the code as `/dev/mapper/bubba-storage` and `/dev/bubba/storage` and is `lv`.

Between any two commands the environment may act: the power fails and the system
boots (`Reboot`), the worker is killed, the disk page mounts or unmounts the external
disk (it does not ask whether a job runs), a disk is exchanged. `Offered` is what the
disk pages let the user start, by the partition type as `internal_is_raid` and
`list_raid_external_devices` have it.

`stray` remembers one interruption: a job stopped after it unmounted `/home` and
before it removed the entry. The job that is run again finds nothing mounted, passes
over the removal, and goes on to remove the volume the entry names. `FsTabIsTrue` says
that this is the only way to an entry for a `/home` that is gone. `bare` remembers
another: a job that ended between the removal of the old entry of `/home` and the mount
of the new (`BetweenHomes`). A boot then, and until a later job gets to its mount, has no
`/home`; `BootsWithHome` says that at any other time it has one.

### JobTable, BackupFiles

`JobTable` is a table of accounts and jobs on which every click is one step. In
`BackupFiles` a window sends a request for a row it shows (`Submit`: `AskCreate`,
`AskRemove`, `AskUpdate`, `AskAdd`, `AskRemoveAccount`, `AskEditAccount`); `Program`
gives the request its order of reads, opens and writes, for an account first in one
file and then in the other; a file that is opened for writing is empty until it is
filled. `rows`, `known` and `stale` are what a window shows and whether it has asked for
the table again. `ImplementsTable` maps to the table the files as they will be when
the request that has begun to write is through. An account that is renamed takes the entry
of its jobs with it, also when it had none: the entry is then `null` (kept, since the
scheduler dies of it).

The selection of a job is folded into its schedule, and dialogs into the rows they
were opened on.

### BackupRun

Extends BackupFiles with runs (`Process`), each of any schedule, two of one schedule
too: the script takes no lock. A run reads accounts and jobs (`ReadTables`), the status
(`ReadStatus`), then for each job that is due stores "running" (`Mark`, `Marked`),
copies (`Rsync`), and stores the result (`Store`, `Stored`), the whole status each time.
`WriteStatus` empties the file, `Dump` writes to it from the start: if another run has
dumped since, what stays may be the dump, the dump with a line of the other's tail,
under that line's job or the one the dump ends at, or no YAML at all (`form`). `Rsync`
returns zero, an error, or the negative number of a signal ("killed"). `MountFails`
skips the copy with the result variable as it is. What ends a run by an exception is in
`Die`, which is also the power failure. A YAML file that is empty loads as None
(`none`). Windows change the files at any point between two steps of a run. `ran`,
`last`, `cut`, `mixed` and `torn` are history: what the copies of a job have returned,
ever and last; where runs were cut off; whether two have overlapped; whether one has
dumped over another's dump.

### FileManager

One window. `Send` puts a request on its way; `Serve` serves any of them (the session
serves one at a time, in any order), and answers come in the order they were served
(`Answer`: `ShowList`, `ShowPermissions`, `DialogDone`, `MoveDone`).

What the user does needs the mouse or a key. `Mouse` needs an uncovered page and no
modal dialog: `Select`, `OpenFolder`. `Keys` needs no modal dialog only, as the throbber
does not keep keys off: `OpenDialog`, `BeginMove`, `FinishMove`, `AbortMove`, by Tab and
Enter. In a dialog (`Reachable`), `Confirm` may be pressed again while the first request
is on its way, and `Escape` closes the dialog and uncovers the page.

`dialogs` are the open dialogs, `modal` is the one that the overlay belongs to. There is
one overlay, and `close()` of jQuery UI 1.8.12 does not ask whether the dialog is open
(`jquery-ui-1.8.12.js:9162`): the answer to a dialog that the user has closed takes the
overlay of the one opened since, which then is open and not modal, with the page free
under it. `chosen` is the selection at the opening of the modal dialog.

`offered` and `enabled` are the mark that a button is disabled and whether it is; they
are set by different callbacks (`Update`, `Restore`). Whether the page knows that a folder
can be written and read is `writable` and `readable`, which some answers set and others
leave. A folder in `Closed` may be refused at any time: the table is then empty, and the
page says so only if the user has opened the folder (`refused`).

### LanInterface

`Ask` and `SetFirewall`, `SetServices`, `SetDnsmasq` are set_lanif; then `SetLanIf`,
`TakeDown`, `Configure`, `Retire`, `Apply`, `WriteBack` are setlanif, with `Throw` for
an exception of any of its calls, `Abort` for the configuration that is looked up in a
string (`json_value.cpp`), `CallIsLost` for a call that comes as the daemon ends, and
`TimeOut` for the end of the daemon. `SetWanIf` is the other request that writes the
file. A command for one of the three parts may fail unseen (`Fails`, history `missed`);
the old interface may stay up when it is taken down (`Stays`, history `stuck`), and the
new one down when it is restarted.

## 4. Runs

| run | instance | shows |
|---|---|---|
| DiskDaemon | 2 clients, 2 jobs, one of them of the kind that fails quietly, all faults | `TypeOK`, `BusyIsWorking`, `DoneIsTrue`, `SuccessToldWhole`, `NeverAbandonsJob`, `OneAnswerEach`, `ImplementsJobLock`, `RequestsAnswered`, `IdleDaemonExits` |
| DiskProgress | 2 windows, a RAID job that may die, SIGINT | `AwaitsAnswer`, `DialogHasJob`, `LoadsEnd`, `ProgressCompletes` |
| DiskProgress_quiet | 1 window, `add_to_lvm` with failing steps | `ProgressCompletes` is violated |
| DaemonSpawn | 2 requests, 3 incarnations | `TypeOK`, `JobsKeepApart`, `JobsAreReachable`, `ConnectReturns` |
| DaemonSpawn_two | the same | `OneJobAtATime` is violated |
| RaidJobs | any command failing, seen or unseen; all events; 8 jobs, events and commands missed | `TypeOK`, `BootsWithHome`, `FsTabIsTrue`, `DoneIsComplete`, `HomeGoesQuietly` |
| RaidJobs_recovery | 6 of these, no kills | `RecoveryHasArray` is violated |
| BackupFiles | 2 windows, 2 accounts, 1 device, 2 schedules, 4 requests | `TypeOKFiles`, `ImplementsTable`, `ShownIsSettled`, `ShowsTable` |
| BackupRun | 2 accounts, 1 device, 2 schedules, 1 job at first, 2 runs, 1 request of a window | `TypeOK`, `ResultsAreOwn`, `RunningMeansRunning`, `OwnTableIsTrue` |
| BackupRun_completed | the same with 2 jobs at first | `CompletedMeansCopied` is violated |
| FileManager | 2 folders, one of them read-only, one that may be refused, 2 names, a file in each folder, 3 requests and answers on their way, 2 requests of the user | `TypeOK`, `PathsAgree`, `ButtonsMatchSelection`, `CoveredAwaits`, `ListIsTrue`, `OnlyChosen`, `Uncovered` |
| LanInterface | 3 interfaces | `TypeOK`, `SuccessAgrees`, `SettingsKept` |

*Why these bounds.* Two clients are enough for one to be inside `write_progress`, or to
have started a job, while another does anything else; the proofs cover more. The second
job of DiskDaemon is one that must not start while the first runs. Three incarnations
are one that leaves or is dead, one that serves, and one that starts; process numbers
that nothing refers to are used again, so the runs of DaemonSpawn are not bounded in
length, nor are those of DiskDaemon, DiskProgress and LanInterface. In RaidJobs the only
bound is `Budget`: eight jobs, events and commands that fail unseen cover an
installation of the array, a failure in it, the recovery, a failure in that, and a
second attempt, each with a power cut or a mount in between; the number of commands is
not bounded. One job and the seven commands that it can miss fit into it, too. In
BackupFiles four requests are an account, its job, and a change of either from a row of
another window that was loaded before. In BackupRun two runs are an overlap of two
schedules or of one, or a run that is cut off and the next; a request of a window takes
an account or a job from under them, or adds a second one. In FileManager two requests
with their reloads are every pair of a change and of what the user does while it is on
its way, the late close of one dialog under another among them; the files of the two
folders have the same name, so that moves are in the way of each other. Three interfaces
are the old, the new, and one that an earlier failure has left. Of all safety properties
the proofs remove the bounds.

`CHECK_DEADLOCK FALSE` is set where the bound on jobs, requests or runs is spent and
the system then rests: RaidJobs, BackupFiles, BackupRun and FileManager. Symmetry is
used in BackupRun and DaemonSpawn_two, whose runs check invariants only.

## 5. Fairness and other assumptions

*Disk daemon.* The worker (weak): the kernel schedules it and its commands end. The
loop (strong, per callback): IO::Async polls all descriptors and timers in each round,
so a callback that is ready again and again gets its turn; strong because a callback
is disabled while another is in `write_progress`. The timers (strong): the same loop.
`WorkFairness` is the part about the worker and `write_progress`, `CallbackFairness` that
about the other callbacks of the daemon.
A PHP request that has an answer reads it (weak). Nothing is assumed of clients that
have nothing outstanding, of users, of faults or of signals.

*DiskProgress.* `FairSpecPage`: `WorkFairness`; a daemon is started for what needs one
(weak, `SpawnFor`); each window goes on by itself and what it has asked gets its turn in
the event loop (strong, `Proceed` or `Turn`: a daemon lives for a minute at least after
it was spawned, but may go and come back any number of times in between). The properties
need no fairness of the daemon's other callbacks, so none is assumed; the violation in
DiskProgress_quiet is found under `TimedSpecPage`, which has it, too. Nothing keeps the
countdown, or a signal, from coming between two requests of a window.
`ProgressCompletes` excepts the windows that are `untold`, for which it then is false,
and assumes that windows do not start new jobs for ever: each job resets `done`, and a
poll of another window may miss it every time. `refuse` is not among the faults of this
run: a shared memory that cannot be read at any poll, ever again, would keep a window
polling.

*DaemonSpawn.* Only the start, the end and the retry are fair: jobs may take any time
and daemons may stay for ever. `ConnectReturns` excepts a request whose daemon has met
another one, or has gone again before the request tried a second time (4 ms against a
minute): both are in the model, and may leave the constructor in its loop for ever.

*Backup pages.* PHP runs a request to its end, and a window that has asked for the
table gets it (weak). The windows share a session, whose file PHP keeps locked from
`session_start` (`libraries/Session/Session.php:148`) to the end of a request: with
`OneSession`, the requests of a session are served one after the other. The code of the
pages has no other lock, and windows of two sessions do lose updates.

*File manager.* The server answers, and the page runs the callback (weak). The user
may stop at any time. The page has no handler for a request that fails to be answered:
that each is answered is an assumption of `Uncovered`.

The scheduler, the disk jobs and the network interface are checked for safety only:
any step may be the last.

## 6. Proofs

Each proof module holds an inductive invariant or two, the lemmas that every action
keeps them, and the theorems, for any value of the constants that satisfies the named
assumptions of the module. Each invariant, each action property and each refinement of
safety that a passing run checks is proved; what a theorem assumes beyond the module is
said here, and in its statement. `LockSafety` states what no run checks by itself: the
safety part of `ImplementsJobLock`.

`DiskDaemonProofs`. The theorems rest on `Inv`. `BusyIsWorking` needs that a daemon
that is down has no worker (`DownIsBare`): otherwise a new incarnation, with its flag
clear, would accept a second job. `SuccessToldWhole` is about two loads with any number
of stores in between. It needs that what has been loaded stands for something: `seen`
is set only inside `write_progress` (`SeenIsRead`), a job whose success flag is set has
stored its last text (`SuccessIsFinal`), and a success flag that a callback has loaded
still stands (`SeenStands`). The last is the heart: while the loop is in a callback no
job can be accepted that would take the flag back, and by `SuccessIsFinal` the worker
that set it has nothing left to store but `overall_action`. `NeverAbandonsJob` and
`RefinesLock` (the safety part of JobLock under `holder <- IF wpc = "none" THEN NoJob
ELSE wjob`) follow from the invariant step by step. `OneAnswerEach` is about a request
that `on_read` hands over to `write_progress`, where others may come and the process
may end. It needs `Open`: as long as a request is not answered there is no answer for
its client, and the callback in `write_progress` is inside the request it was called
for, a job or a query of progress. `DoneIsTrue` adds to the invariant that the catch
block has told the end between its two stores (`EndTold`).

`DiskProgressProofs`. `PagesAreClients`: each step of the windows is a step of
DiskDaemon's clients or none, so `SpecPage => Spec`, and all of the above holds behind
the pages. `AwaitsAnswer` is the safety behind
`LoadsEnd` and is inductive together with `OneAnswerEach`: a window that can do nothing
but wait has its answer, or a daemon that is up and has its request; so a daemon that
goes away has answered all, if only by closing the connection. `DialogHasJob` is the
safety behind `ProgressCompletes`: a window sent to the progress page has a job before
it, or its done flag. It needs that `overall_action` names a job only while a worker is at
work (`NamedIsWorking`), that an accepted job is at work until its starter has its
answer (`AcceptedIsWorking`), so that either answer that sends a window there is true, and
that as long as the daemon stays the end of a job stays to be told (`JobStays`); a
daemon that goes puts the window among the untold.

`DaemonSpawnProofs`. Nothing is assumed of how daemons come and go. `JobsKeepApart` and
`JobsAreReachable` rest on two daemons that live at the same time being crowded both
(`Crowds`), on where a daemon that is not crowded stands saying what is at the two paths
(`Paths`), and on the worker of such a daemon, unless it was interrupted, having it in
its loop (`Watched`). The work is in the steps by which one daemon acts on the files or
the process of another: each of them makes both crowded, or has the other one gone.

`RaidJobsProofs`. The scripts are data, so `Where` first says at which position each
command stands in the two scripts that replace `/home`; it is proved from the scripts
command by command. `Created` and `Restored` are the assertions at each position, and
`HomeIsThere`, `EntryIsMounted`, `HomeBoots` what holds whoever runs, or ran: what is
mounted on `/home` exists, the array is one of disks with its superblock, and an entry
of the volume that is not mounted is about to be removed, or `stray`. The last is what
makes `FsTabIsTrue` inductive over jobs that die and are run again. `DoneIsComplete`
must survive a reboot, for which a success remembers that the volume is gone
(`Complete`). `HomeGoesQuietly` needs the services down, or not stopped unseen, at
`umount_home` in both scripts (`Quiet`), and `HomeBoots` and `HomeIsThere` for a boot.
`missed` is in the assertions wherever a command is not looked at: the job goes on
without what it was for, and the properties say of what success and quiet remain true
then.

`BackupFilesProofs`. Types, with the fact that a request is well asked (`WellAsked`) and
has a step to go on with as long as it is not at its end. `FilesImplementTable` is the
refinement `ImplementsTable`, under `OneSession \/ OneWindow`: the windows share a
session, or there is only one. What makes it hold is that then one request is at work at
a time (`Alone`), so that what a request has read is still what the files hold when it
writes (`ReadIsTrue`), and that each of the two files has the jobs of its own kind of
targets, as has what a request fills it with (`Sorted`). With these (`TableInv`) there
is a lemma for each step of a program: reads, and all writes after the first, leave the
table as it is, and the first open of a file is the step of the table that the request
stands for (or none, if the request finds nothing to do). The settled table is a
`CHOOSE` of the request that writes; `Alone` makes it that request. Without the
assumption the refinement is false: two sessions lose updates (section 5).
`ShownIsSettled` follows: a window is given the table by a request that is alone.
`OwnTableIsTrue` needs that a request which is still to be refused has changed nothing
(`OwnInv`).

`BackupRunProofs`. `ResultsAreOwn` needs the same of the copies that runs hold, and of
the result that is about to be stored (`CopiesAreOwn`): whatever is written back, by
whoever and however late, is a result of its job, until a run dumps over the dump of
another (`torn`). It is about remote jobs: a local job takes the result of another
(finding 4). `RunningMeansRunning` needs that without overlap there is one run and its
dumps are whole (`OneRuns`), and that its copy says "running" of its own job or of one
that was cut off (`CopyOfRunning`), and "killed", which the page shows in the same
words, of one whose last rsync was (`CopyOfKilled`). `RunsKeepTable` carries the
refinement of the files over to the runs, which have no lock: `TableInv` holds whatever
they do, since they only read the jobs and accounts; `OwnTableIsTrueBehindRuns`
likewise.

`FileManagerProofs`. The sequences of requests and answers are of any length. Tables on
their way are of their folder (`ListsAreWhole`), the buttons that a move will give back
match the selection, too (`OfferMatches`), and a modal dialog keeps the selection it was
opened for or has lost it (`DialogKeeps`). A table that is true is all of its folder, or
empty if it was refused (`TrueTable`). `ListIsTrue` needs `Truth`: if no table has been
asked for that is not served yet, the last one on its way is true or the answer of a
change is behind it, and if none is on its way the page shows the folder, or an answer
of a change is, or a failure was told. `OnlyChosen` follows step by step; a dialog that
has lost its overlay has no part in it, as rows can be clicked under it.

`LanInterfaceProofs`. `SuccessAgrees` rests on the three parts following the wanted
interface in their order, or being missed (`PartsFollow`), on the daemon that was asked
having named another (`NamedAnother`), so that a call that does nothing is made only of
one that has read the file since, and on the two interfaces of a move being different
(`Moving`); `SettingsKept` on the new one having settings before the old one loses them,
which by then is down, or has stayed up when told to go (`NewIsReady`, `OldIsDown`).

Only model-checked: the liveness properties `ImplementsJobLock` (its fairness part),
`RequestsAnswered`, `IdleDaemonExits`, `LoadsEnd`, `ProgressCompletes`,
`ConnectReturns`, `ShowsTable`, `Uncovered`. They need fairness and `ENABLED`, which the
prover does not reason about. Of most of them the safety part is a theorem: what is waited
for is on its way (`AwaitsAnswer`, `DialogHasJob`, `CoveredAwaits`, `DoneIsTrue`,
`OwnTableIsTrue`). That `ProgressCompletes` (of `add_to_lvm`), `OneJobAtATime`,
`RecoveryHasArray` and `CompletedMeansCopied` fail is shown by their runs.

## 7. Findings

Each is the counterexample of a run.

 1. *DiskProgress_quiet.* A failing step of `add_to_lvm` leaves `done` unset
    (`diskdaemon.pl:423`); the progress dialog polls for ever and cannot be closed.
 2. *DaemonSpawn_two.* Two requests that find no daemon start one each; the second
    removes the socket of the first (`diskdaemon.pl:81`), and both accept a job.
 3. *RaidJobs_recovery.* After a `create_raid` that died early, the recovery of the
    internal disk is offered from a disk without an array, and removes `/home`.
 4. *BackupRun_completed.* A job whose device cannot be mounted stores the result of the
    job before it (`bubba-run-backupjobs:265`); the page says "Completed" of data that
    was not copied.

Seen while reading, without a run:

 * Disk: a countdown that runs out between the end of a job and the next poll takes the
   end with it, and the dialog of the window cannot be closed. A job reports success
   with services or swap off if the command that starts them fails, and goes on to
   unmount `/home` under services that have not stopped. `create_raid` turns swap off
   first, and a job that dies on the external disk leaves it off, although the changelog
   (line 1919) says that the running system is not affected. After a recovery of the
   internal disk that died, the recovery of the external disk is offered and
   repartitions the only disk with the array (`diskdaemon.pl:926`). `abort_format` of
   the disk page compares with `format`, which the daemon calls `format_disk`, and sends
   `shutdown`, which has no handler. The dialogs do not look at a refusal and go to the
   progress page, which on a daemon without a job polls for ever.
 * Network: after a failed move the memory of the daemon names the new interface, so the
   same move then does nothing and reports success only if the daemon has started anew;
   going back makes the daemon abort on raw settings (`json_value.cpp:18`); setwanif
   writes the failed interface to the file; a lost call is reported as a failure after
   the firewall has been moved; the rollback at `Dispatcher.cpp:328` is never reached.
   What the firewall, the services, dnsmasq and the interface return is not looked at
   (`Networkmanager.php:454`, `Dispatcher.cpp:253`): a success may leave them behind.
 * File manager: the answer to a dialog closed by Escape closes it again, and takes the
   overlay of a delete dialog opened since: rows can be selected under it, and Confirm
   deletes them. A reload that is refused shows an empty table without a word
   (`filemanager.js:456`). A new name that is that of a folder moves the file into it
   (`Filemanager.php:87`). After Escape, the answer with the permissions of one file
   fills the dialog of another (`filemanager.js:12`). A delete or move that fails for
   one of several files is not followed by a reload (`filemanager.js:106`). `writable`
   is not set by the first table or by reloads (`filemanager.js:456`). A click on a row
   during a move enables the toolbar again (`filemanager.js:384`). A request that is not
   answered leaves the page covered (`jquery.ui.filemanager.js:231`).
 * Backup: an rsync that is killed returns a negative number, which the page shows as
   "currently running" (`Ajax_backup.php:84`) until the job runs again; dumps of two
   runs may mix in one file. A device that is not attached as the first job, a file of
   accounts or a status file that is empty, and the null entry of an account that was
   renamed while it had no jobs each end the whole run. `backup.js:395` assigns the form
   of the wizard, so that after a change of a job no job can be added until the page is
   loaded again.

## 8. What is not modelled

 * Third-party code: jQuery and its plug-ins, DataTables, CodeIgniter, libsigc++. It is
   nine tenths of the JavaScript in the tree, so the map covers a small share of all
   lines; of the pages that keep state it covers their handlers. What the dialogs of
   jQuery UI do to their overlay is in FileManager.
 * The other pages (users, network forms, software, albums, printing): each posts a form and
   shows the answer. `old_backup.js` is loaded by nothing.
 * The listen queue (three): a connect to a full queue fails, and executes another
   daemon. It is a second way into finding 2.
 * A rewrite of `/etc/fstab` is one step, and entries are a set of devices. Split, it
   would show that two writers lose updates, which nothing in the code says they do not.
 * Effects of a disk command that fails half way, but for partition tables and for the
   commands whose result nobody looks at; `abort_format`,
   `remove_raid_disk`, `user_mount`, the listings of disks; `progress`, `error` and
   `is_idle` of `%status`, on which nothing depends.
 * More than one line of another dump under a shorter one in the status file.
 * Time limits of PHP; a request that is cut off by one.
 * The keys of remote accounts and their files; what rsync copies; mount points.
 * Downloads, uploads and albums of the file manager, sorting and paging of its table.
 * Requests of the network manager that read, or set one interface.
 * Notifications, users, `backend.pl`, the updater, the firewall's rules: see
   `PROJECT.json`.
 * The boot scripts, mdadm, LVM, mount and rsync are external: modelled by what the
   scripts expect of them. Old RAID disks are assembled at boot.

## 9. Plan

Done: all modules of section 3 with their runs and proofs.

Left, by worth:

 1. **FsTab** as read, change and rewrite by two processes, with the set of entries of
    RaidJobs as its abstract specification in the absence of a second writer.
 2. **NotifySpool**: append against parse and unlink, and the dispatcher's lock.
 3. **AuthFile**: look-up, lock and rewrite, for requests of two sessions.
 4. A second window of FileManager, whose changes the first one does not see.
 5. A theorem about the recovery of the internal disk for the jobs that were not
    stopped half way, which needs a history like `stray` of the partition types.
