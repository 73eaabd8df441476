------------------------------ MODULE UpdateService ------------------------------
(***************************************************************************)
(* The update service of the Windows build (services/updates.rs): several  *)
(* windows check for a release, download it and install it while the user  *)
(* changes the channel.                                                    *)
(*                                                                         *)
(* One mutex lets a single check ask the network, the others wait for it;  *)
(* another one serialises downloads and installations.  A check does not   *)
(* take the second: it drops the downloaded package and writes the shared  *)
(* status whatever a download is doing.                                    *)
(***************************************************************************)
EXTENDS Naturals, FiniteSets

CONSTANTS
    Calls,      \* calls of the windows, each checks, downloads or installs once
    Portable,   \* whether this is a portable build
    Changes,    \* bound of the instance: changes of the channel
    None

Channels == {"stable", "beta"}

VARIABLES
    channel,    \* the channel of the preferences
    status,     \* the shared status
    package,    \* the downloaded and verified package
    checking,   \* the call that holds update_check
    operating,  \* the call that holds update_operation
    calls,      \* where each call is, and what it has read
    running,    \* FALSE when the application exits for the update
    changed
locks == <<checking, operating>>
vars == <<channel, status, package, locks, calls, running, changed>>

\* The releases: a preview is newer than the release of the stable channel.
Tags == {"release", "preview"}
select_release(c) == IF c = "beta" THEN "preview" ELSE "release"
Status(state, c, tag) == [state |-> state, channel |-> c, tag |-> tag]
States == {"idle", "checking", "available", "not-available", "downloading", "downloaded", "error"}
Idle == [at |-> "idle", channel |-> None, tag |-> None]

TypeOK ==
    /\ channel \in Channels
    /\ status \in [state : States, channel : Channels \cup {None}, tag : Tags \cup {None}]
    /\ package = None \/ package \in [channel : Channels, tag : Tags]
    /\ checking \in Calls \cup {None} /\ operating \in Calls \cup {None}
    /\ DOMAIN calls = Calls
    /\ running \in BOOLEAN

Init ==
    /\ channel \in Channels
    /\ status = Status("idle", channel, None)
    /\ package = None
    /\ checking = None /\ operating = None
    /\ calls = [c \in Calls |-> Idle]
    /\ running = TRUE /\ changed = 0

Goto(c, at) == calls' = [calls EXCEPT ![c].at = at]
Chose(c, at, ch, tag) == calls' = [calls EXCEPT ![c] = [at |-> at, channel |-> ch, tag |-> tag]]

(***************************************************************************)
(* Checking.                                                               *)
(***************************************************************************)

\* check: the first caller asks, the others wait for it and read its status.
Check(c) ==
    /\ calls[c].at = "idle"
    /\ IF checking = None
       THEN checking' = c /\ Goto(c, "took")
       ELSE checking' = checking /\ Goto(c, "waits")
    /\ UNCHANGED <<channel, status, package, operating, running, changed>>

Shared(c) ==
    /\ calls[c].at = "waits" /\ checking = None
    /\ Goto(c, "done")
    /\ UNCHANGED <<channel, status, package, locks, running, changed>>

\* The package of an earlier download is dropped, then the status says so.
Drops(c) ==
    /\ calls[c].at = "took"
    /\ package' = None
    /\ Goto(c, "drops")
    /\ UNCHANGED <<channel, status, locks, running, changed>>

Announces(c) ==
    /\ calls[c].at = "drops"
    /\ status' = Status("checking", channel, None)
    /\ Goto(c, "asks")
    /\ UNCHANGED <<channel, package, locks, running, changed>>

\* fetch_release_selection reads the channel again.
Asks(c) ==
    /\ calls[c].at = "asks"
    /\ Chose(c, "asked", channel, select_release(channel))
    /\ UNCHANGED <<channel, status, package, locks, running, changed>>

\* check_windows_update: a release, none, or an error of the network.
\* (the fallback to the release page is an available release without a download)
Answers(c) ==
    /\ calls[c].at = "asked"
    /\ \/ status' = Status("available", calls[c].channel, calls[c].tag)
       \/ status' = Status("not-available", calls[c].channel, None)
       \/ status' = Status("error", channel, None)
    /\ checking' = None
    /\ Goto(c, "done")
    /\ UNCHANGED <<channel, package, operating, running, changed>>

(***************************************************************************)
(* Downloading.                                                            *)
(***************************************************************************)

\* Callers queue for update_operation.
Queue(c) ==
    /\ calls[c].at = "idle"
    /\ \/ Goto(c, "download")
       \/ Goto(c, "install")
    /\ UNCHANGED <<channel, status, package, locks, running, changed>>

\* The tag of the status counts only when it was chosen on the channel of now.
StatusTag == IF status.channel = channel THEN status.tag ELSE None

\* Mistaken variant: several downloads and installations at a time.
AcquireFreely(c) == operating' = c

Acquire(c) == operating = None /\ operating' = c

Download(c) ==
    /\ calls[c].at = "download"
    /\ Acquire(c)
    /\ Chose(c, IF StatusTag = None THEN "selects" ELSE "rechecks", channel, StatusTag)
    /\ UNCHANGED <<channel, status, package, checking, running, changed>>

Releases(c) == operating' = None /\ Goto(c, "done")

Fails(c) ==
    /\ \/ status' = Status("error", calls[c].channel, None)
       \/ /\ calls[c].tag # None
          /\ status' = Status("error", calls[c].channel, calls[c].tag)
    /\ Releases(c)

\* Without a tag the releases are asked for again: the channel may have changed since.
Selects(c) ==
    /\ calls[c].at = "selects"
    /\ \/ /\ calls' = [calls EXCEPT ![c].at = "rechecks", ![c].tag = select_release(channel)]
          /\ UNCHANGED <<status, operating>>
       \/ Fails(c)
    /\ UNCHANGED <<channel, package, checking, running, changed>>

Rechecks(c) ==
    /\ calls[c].at = "rechecks"
    /\ \/ /\ status' = Status("downloading", calls[c].channel, calls[c].tag)
          /\ Goto(c, "loads")
          /\ operating' = operating
       \/ /\ status' = Status("not-available", calls[c].channel, None)
          /\ Releases(c)
       \/ Fails(c)
    /\ UNCHANGED <<channel, package, checking, running, changed>>

\* The callback of the download writes its progress over any other status.
Progress(c) ==
    /\ calls[c].at = "loads"
    /\ status' = Status("downloading", calls[c].channel, calls[c].tag)
    /\ UNCHANGED <<channel, package, locks, calls, running, changed>>

Loaded(c) ==
    /\ calls[c].at = "loads"
    /\ \/ /\ package' = [channel |-> calls[c].channel, tag |-> calls[c].tag]
          /\ Goto(c, "loaded")
          /\ UNCHANGED <<status, operating>>
       \/ /\ Fails(c)
          /\ package' = package
    /\ UNCHANGED <<channel, checking, running, changed>>

Tells(c) ==
    /\ calls[c].at = "loaded"
    /\ status' = Status("downloaded", calls[c].channel, calls[c].tag)
    /\ Releases(c)
    /\ UNCHANGED <<channel, package, checking, running, changed>>

(***************************************************************************)
(* Installing.                                                             *)
(***************************************************************************)

\* A portable build asks the file editors first, and keeps the package when they refuse.
Install(c) ==
    /\ calls[c].at = "install"
    /\ Acquire(c)
    /\ Goto(c, "edits")
    /\ UNCHANGED <<channel, status, package, checking, running, changed>>

Refused(c) ==
    /\ calls[c].at = "edits" /\ Portable
    /\ Releases(c)
    /\ UNCHANGED <<channel, status, package, checking, running, changed>>

\* The package is taken whether the installation works or not.
Takes(c) ==
    /\ calls[c].at = "edits"
    /\ package' = None
    /\ IF package = None
       THEN status' = Status("error", None, None) /\ Releases(c)
       ELSE status' = status /\ operating' = operating /\ Goto(c, "installs")
    /\ UNCHANGED <<channel, checking, running, changed>>

Installs(c) ==
    /\ calls[c].at = "installs"
    /\ \/ running' = FALSE /\ status' = status
       \/ running' = running /\ status' = Status("error", None, None)
    /\ Releases(c)
    /\ UNCHANGED <<channel, package, checking, changed>>

\* The user changes the channel in the settings.
ChangeChannel ==
    /\ changed < Changes
    /\ channel' \in Channels \ {channel}
    /\ changed' = changed + 1
    /\ UNCHANGED <<status, package, locks, calls, running>>

CallStep(c) ==
    \/ Shared(c) \/ Drops(c) \/ Announces(c) \/ Asks(c) \/ Answers(c)
    \/ Download(c) \/ Selects(c) \/ Rechecks(c) \/ Loaded(c) \/ Tells(c)
    \/ Install(c) \/ Refused(c) \/ Takes(c) \/ Installs(c)

Next ==
    /\ running
    /\ \/ \E c \in Calls : Check(c) \/ Queue(c) \/ Progress(c) \/ CallStep(c)
       \/ ChangeChannel

Spec == Init /\ [][Next]_vars

(***************************************************************************)
(* Properties.                                                             *)
(***************************************************************************)

\* A check answers for one channel: the release it offers is the one of the channel its
\* status names, although the channel is read at its start, when it asks and when it fails.
CheckKeepsToChannel ==
    status.state = "available" => status.tag = select_release(status.channel)

\* A status that offers to install names the package that would be installed, unless a
\* check has just dropped that package.
PackageIsTheOneShown ==
    status.state = "downloaded" /\ package # None /\ (\A c \in Calls : calls[c].at # "loaded")
        => package = [channel |-> status.channel, tag |-> status.tag]

\* What a window shows can be relied on: the release offered, and the package installed.
StatusIsTrue == CheckKeepsToChannel /\ PackageIsTheOneShown

=============================================================================
