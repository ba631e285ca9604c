---------------------------- MODULE LanInterface ----------------------------
(***************************************************************************)
(* The move of the local network from one interface to another, when the   *)
(* wireless network is switched on or off: set_lanif of the web interface  *)
(* (models/Networkmanager.php), which points the firewall, the services    *)
(* and dnsmasq at the new interface and then calls the network manager,    *)
(* and setlanif of the network manager (Dispatcher.cpp), a daemon that is  *)
(* started when it is called, ends when nobody has called for a while, and *)
(* has read the configuration file when it started.                        *)
(*                                                                         *)
(* An exception of setlanif leaves what it has done; the branch that would *)
(* restore the old settings is never taken.  An interface that has no      *)
(* address settings to hand on makes the daemon abort: its configuration   *)
(* is looked up in a string.                                               *)
(*                                                                         *)
(* Neither side looks at what its commands return: not set_lanif at the    *)
(* firewall, the services and dnsmasq, not setlanif at the interface that  *)
(* it takes down or restarts.  Two variables of the specification, missed  *)
(* and stuck, keep what has failed in this way.                            *)
(*                                                                         *)
(* Requests of the session come one at a time.                             *)
(***************************************************************************)
CONSTANTS
  Interface,   \* the interfaces that can be the local network's
  First,       \* that of a new device
  NoInterface  \* of a daemon that is not there

ASSUME LanAssumption == First \in Interface /\ NoInterface \notin Interface

VARIABLES
  firewall, services, dnsmasq,  \* the interface that each of them uses
  disk,      \* lanif in the configuration file
  memory,    \* lanif in the daemon
  settings,  \* the interfaces with address settings
  up,        \* the interfaces that are up
  pc,        \* where set_lanif stands, in PHP and then in the daemon
  want,      \* the interface it was called with
  old,       \* the one that the daemon has found
  success,   \* has the last call reported success?
  missed,    \* history: the parts whose command has failed in the last call
  stuck      \* history: the interfaces that have stayed up when taken down

parts == <<firewall, services, dnsmasq>>
store == <<disk, memory>>
net == <<settings, up, stuck>>
call == <<want, old, success, missed>>
vars == <<parts, store, net, pc, call>>

TypeOK ==
  /\ firewall \in Interface /\ services \in Interface /\ dnsmasq \in Interface
  /\ disk \in Interface
  /\ memory \in Interface \cup {NoInterface}
  /\ settings \subseteq Interface
  /\ up \subseteq Interface
  /\ pc \in {"idle", "firewall", "services", "dnsmasq", "call", "down", "configure",
             "retire", "apply", "write"}
  /\ want \in Interface
  /\ old \in Interface
  /\ success \in BOOLEAN
  /\ missed \subseteq {"firewall", "services", "dnsmasq"}
  /\ stuck \subseteq Interface

Init ==
  /\ firewall = First /\ services = First /\ dnsmasq = First
  /\ disk = First
  /\ memory = NoInterface
  /\ settings = {First}
  /\ up = {First}
  /\ pc = "idle"
  /\ want = First /\ old = First
  /\ success = TRUE
  /\ missed = {}
  /\ stuck = {}

Goto(from, to) == pc = from /\ pc' = to

(* Mutant: a daemon that is not there is not started.                      *)
FoundInMemory == memory

(* What a daemon that is called finds; one that is not there is started.   *)
Found == IF memory = NoInterface THEN disk ELSE memory

-----------------------------------------------------------------------------
(* PHP.  Nothing is done if the interface is said to be the current one.   *)
Ask(i) ==
  /\ pc = "idle"
  /\ memory' = Found
  /\ IF i = Found
       THEN UNCHANGED <<pc, want, success, missed>>
       ELSE pc' = "firewall" /\ want' = i /\ success' = FALSE /\ missed' = {}
  /\ UNCHANGED <<parts, disk, net, old>>

(* A command for a part does what it is for, or fails without anybody      *)
(* looking.                                                                *)
Works(part) == UNCHANGED missed
Fails(part) == missed' = missed \cup {part}

SetFirewall ==
  /\ Goto("firewall", "services")
  /\ \/ Works("firewall") /\ firewall' = want
     \/ Fails("firewall") /\ UNCHANGED firewall
  /\ UNCHANGED <<services, dnsmasq, store, net, want, old, success>>

SetServices ==
  /\ Goto("services", "dnsmasq")
  /\ \/ Works("services") /\ services' = want
     \/ Fails("services") /\ UNCHANGED services
  /\ UNCHANGED <<firewall, dnsmasq, store, net, want, old, success>>

SetDnsmasq ==
  /\ Goto("dnsmasq", "call")
  /\ \/ Works("dnsmasq") /\ dnsmasq' = want
     \/ Fails("dnsmasq") /\ UNCHANGED dnsmasq
  /\ UNCHANGED <<firewall, services, store, net, want, old, success>>

Answer(ok) == pc' = "idle" /\ success' = ok /\ UNCHANGED missed

(* The daemon has ended while the call waited to be accepted.              *)
CallIsLost ==
  /\ pc = "call" /\ memory # NoInterface
  /\ memory' = NoInterface
  /\ Answer(FALSE)
  /\ UNCHANGED <<parts, disk, net, want, old>>

(* Nobody has called for a while.                                          *)
TimeOut ==
  /\ pc \in {"idle", "firewall", "services", "dnsmasq", "call"}
  /\ memory # NoInterface
  /\ memory' = NoInterface
  /\ UNCHANGED <<parts, disk, net, pc, call>>

-----------------------------------------------------------------------------
(* The daemon.  The new interface is noted in memory before anything can   *)
(* fail.                                                                   *)
SetLanIf ==
  /\ pc = "call"
  /\ memory' = want
  /\ IF want = Found
       THEN Answer(TRUE) /\ UNCHANGED old
       ELSE pc' = "down" /\ old' = Found /\ UNCHANGED <<success, missed>>
  /\ UNCHANGED <<parts, disk, net, want>>

(* The old interface goes down, or does not.                               *)
Stays == SUBSET (up \cap {old})

TakeDown ==
  /\ Goto("down", "configure")
  /\ \E stays \in Stays :
       /\ up' = (up \ {old}) \cup stays
       /\ stuck' = (stuck \ {old}) \cup stays
  /\ UNCHANGED <<parts, store, settings, call>>

(* Mutant: an interface without settings hands that on.                    *)
HandOnNothing ==
  /\ Goto("configure", "retire")
  /\ settings' = IF old \in settings THEN settings \cup {want} ELSE settings \ {want}
  /\ UNCHANGED <<parts, store, up, stuck, call>>

(* The new interface gets the settings of the old.                         *)
Configure ==
  /\ Goto("configure", "retire")
  /\ old \in settings
  /\ settings' = settings \cup {want}
  /\ UNCHANGED <<parts, store, up, stuck, call>>

Abort ==
  /\ pc = "configure" /\ old \notin settings
  /\ memory' = NoInterface
  /\ Answer(FALSE)
  /\ UNCHANGED <<parts, disk, net, want, old>>

Retire ==
  /\ Goto("retire", "apply")
  /\ settings' = settings \ {old}
  /\ UNCHANGED <<parts, store, up, stuck, call>>

(* Mutant: the old interface is restarted with the new.                    *)
ApplyBoth ==
  /\ Goto("apply", "write")
  /\ \E picked \in SUBSET {want, old} :
       /\ up' = up \cup picked
       /\ stuck' = stuck \ picked
  /\ UNCHANGED <<parts, store, settings, call>>

(* The old interface is taken down once more; the new one is restarted,    *)
(* and is up then or is not.                                               *)
Apply ==
  /\ Goto("apply", "write")
  /\ \E stays \in Stays, picked \in SUBSET {want} :
       /\ up' = (up \ {old, want}) \cup stays \cup picked
       /\ stuck' = (stuck \ {old, want}) \cup stays
  /\ UNCHANGED <<parts, store, settings, call>>

(* Any of the steps before the interface is picked up can throw, and those *)
(* that change the settings can do so after the change.                    *)
Throw ==
  /\ pc \in {"down", "configure", "retire", "apply"}
  /\ Answer(FALSE)
  /\ UNCHANGED <<parts, store, net, want, old>>

(* Mutant: success is reported before the file is written.                 *)
WriteLater ==
  /\ pc = "write"
  /\ \/ Answer(TRUE) /\ disk' = want
     \/ Answer(TRUE) /\ UNCHANGED disk
  /\ UNCHANGED <<parts, memory, net, want, old>>

WriteBack ==
  /\ pc = "write"
  /\ \/ Answer(TRUE) /\ disk' = want
     \/ Answer(FALSE) /\ UNCHANGED disk
  /\ UNCHANGED <<parts, memory, net, want, old>>

(* setwanif writes the file, and what is in memory with it.                *)
SetWanIf ==
  /\ pc = "idle"
  /\ memory' = Found
  /\ disk' = Found
  /\ UNCHANGED <<parts, net, pc, call>>

Next ==
  \/ \E i \in Interface : Ask(i)
  \/ SetFirewall \/ SetServices \/ SetDnsmasq
  \/ CallIsLost \/ TimeOut
  \/ SetLanIf \/ TakeDown \/ Configure \/ Abort \/ Retire \/ Apply \/ Throw \/ WriteBack
  \/ SetWanIf

Spec == Init /\ [][Next]_vars

-----------------------------------------------------------------------------
(* After a success all use the same interface: the file, the daemon if     *)
(* there is one, and the firewall, the services and dnsmasq unless the     *)
(* command for them was one that failed unseen in this very call, whatever *)
(* had failed before and wherever the daemon had ended in the meantime.    *)
SuccessAgrees ==
  pc = "idle" /\ success =>
    /\ firewall = want \/ "firewall" \in missed
    /\ services = want \/ "services" \in missed
    /\ dnsmasq = want \/ "dnsmasq" \in missed
    /\ disk = want /\ memory \in {want, NoInterface}

(* The address settings are not lost: an interface has them, whatever      *)
(* fails and whatever is tried after it.                                   *)
AddressKept == settings # {}

(* An interface that is up has address settings, or was told to go down    *)
(* and has not gone.                                                       *)
UpIsConfigured == up \subseteq settings \cup stuck

(* Both: settings move from interface to interface, and none is left       *)
(* without them that has not been told to go down.                         *)
SettingsKept == AddressKept /\ UpIsConfigured
=============================================================================
