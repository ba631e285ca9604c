------------------------- MODULE LanInterfaceProofs -------------------------
(***************************************************************************)
(* Proofs about LanInterface, for any set of interfaces.  All rest on the  *)
(* inductive invariant Inv.                                                *)
(***************************************************************************)
EXTENDS LanInterface, TLAPS

InPHP == pc \in {"firewall", "services", "dnsmasq", "call"}
InDaemon == pc \in {"down", "configure", "retire", "apply", "write"}

(* What set_lanif has pointed at the interface has it, or has been missed. *)
PartsFollow ==
  /\ pc \in {"services", "dnsmasq", "call"} \/ InDaemon =>
       firewall = want \/ "firewall" \in missed
  /\ pc \in {"dnsmasq", "call"} \/ InDaemon => services = want \/ "services" \in missed
  /\ pc = "call" \/ InDaemon => dnsmasq = want \/ "dnsmasq" \in missed

(* The daemon that was asked named another interface; only a new daemon,   *)
(* which has read the file, may name the one that is wanted.               *)
NamedAnother == InPHP => memory # want

(* setlanif works on two interfaces, of which it has noted the new one.    *)
Moving == InDaemon => memory = want /\ old # want

(* The old interface is down before it loses its settings, or has not gone *)
(* down when told to, and the new one has them then.                       *)
OldIsDown == pc \in {"configure", "retire", "apply"} /\ old \in up => old \in stuck
NewIsReady == pc \in {"retire", "apply"} => want \in settings

Inv ==
  /\ TypeOK
  /\ SuccessAgrees /\ AddressKept /\ UpIsConfigured
  /\ PartsFollow /\ NamedAnother /\ Moving /\ OldIsDown /\ NewIsReady

-----------------------------------------------------------------------------
USE LanAssumption DEF PartsFollow, NamedAnother, Moving, OldIsDown, NewIsReady,
      InPHP, InDaemon, SuccessAgrees, AddressKept, UpIsConfigured, Inv

(* The system boots with the interface that the file names.                *)
LEMMA InitInv == Init => Inv
BY DEF Init, TypeOK

(* The steps of set_lanif in PHP, and the daemon that ends meanwhile.      *)
LEMMA PhpInv ==
  ASSUME Inv,
         \/ \E i \in Interface : Ask(i)
         \/ SetFirewall \/ SetServices \/ SetDnsmasq
         \/ CallIsLost \/ TimeOut \/ SetWanIf
  PROVE Inv'
<1> USE DEF TypeOK, parts, store, net, call, Goto, Answer, Found, Works, Fails, Stays
<1>1. ASSUME NEW i \in Interface, Ask(i) PROVE Inv'
  BY <1>1 DEF Ask
<1>2. CASE SetFirewall
  BY <1>2 DEF SetFirewall
<1>3. CASE SetServices
  BY <1>3 DEF SetServices
<1>4. CASE SetDnsmasq
  BY <1>4 DEF SetDnsmasq
<1>5. CASE CallIsLost
  BY <1>5 DEF CallIsLost
<1>6. CASE TimeOut
  BY <1>6 DEF TimeOut
<1>7. CASE SetWanIf
  BY <1>7 DEF SetWanIf
<1> QED
  BY <1>1, <1>2, <1>3, <1>4, <1>5, <1>6, <1>7

(* The steps of setlanif in the daemon.                                    *)
LEMMA DaemonInv ==
  ASSUME Inv,
         \/ SetLanIf \/ TakeDown \/ Configure \/ Abort \/ Retire \/ Apply
         \/ Throw \/ WriteBack
  PROVE Inv'
<1> USE DEF TypeOK, parts, store, net, call, Goto, Answer, Found, Works, Fails, Stays
<1>1. CASE SetLanIf
  BY <1>1 DEF SetLanIf
<1>2. CASE TakeDown
  BY <1>2 DEF TakeDown
<1>3. CASE Configure
  BY <1>3 DEF Configure
<1>4. CASE Abort
  BY <1>4 DEF Abort
<1>5. CASE Retire
  BY <1>5 DEF Retire
<1>6. CASE Apply
  BY <1>6 DEF Apply
<1>7. CASE Throw
  BY <1>7 DEF Throw
<1>8. CASE WriteBack
  BY <1>8 DEF WriteBack
<1> QED
  BY <1>1, <1>2, <1>3, <1>4, <1>5, <1>6, <1>7, <1>8

(* Every step of the page and of the daemon keeps the invariant.           *)
LEMMA NextInv == Inv /\ [Next]_vars => Inv'
<1> SUFFICES ASSUME Inv, [Next]_vars PROVE Inv'
  OBVIOUS
<1>1. CASE UNCHANGED vars
  BY <1>1 DEF vars, parts, store, net, call, TypeOK
<1>2. CASE Next
  BY <1>2, PhpInv, DaemonInv DEF Next
<1> QED
  BY <1>1, <1>2

(* The invariant holds in every behaviour.                                 *)
THEOREM Invariance == Spec => []Inv
<1> HIDE DEF Inv
<1> QED
  BY InitInv, NextInv, PTL DEF Spec

-----------------------------------------------------------------------------
(* Types.                                                                  *)
THEOREM TypeCorrect == Spec => []TypeOK
BY Invariance, PTL

(* A success leaves the file and the daemon with the same interface, and   *)
(* each of the firewall, the services and dnsmasq whose own command has    *)
(* not failed in that call, whatever had failed before.                    *)
THEOREM SuccessAgreesHolds == Spec => []SuccessAgrees
<1> USE DEF Inv
<1> QED
  BY Invariance, PTL

(* No failure, and nothing that is tried after one, loses the address, nor *)
(* takes it from an interface that is up and was not told to go down.      *)
THEOREM SettingsKeptHolds == Spec => []SettingsKept
BY Invariance, PTL DEF SettingsKept
=============================================================================
