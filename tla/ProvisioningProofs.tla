-------------------------- MODULE ProvisioningProofs --------------------------
(***************************************************************************)
(* The packages of the desktop application, for any number of workspaces,    *)
(* packages, versions, concurrent passes and failures.  An invariant says    *)
(* what every pass under way may rely on, given the part of the world that   *)
(* other passes cannot have changed since it looked.                         *)
(***************************************************************************)
EXTENDS Provisioning, TLAPS

(* A pass is alone under way if nothing has ever overlapped, or if nothing    *)
(* disturbed this one.                                                       *)
Undisputed(q) == ~overlapped \/ pass[q].alone

OnePass ==
    \A q, u \in Pass : Under(q) /\ Under(u) /\ Undisputed(q) => q = u

(* The daemon was started with the versions that are linked, if any.         *)
FreshDaemon ==
    ~overlapped /\ daemon.switched = 0 =>
        \A r \in Runtime : daemon.uses[r] \in {None, Resolved(r)}

(* What kind of package a pass has in hand.                                  *)
Placed(q) ==
    /\ Under(q) => pass[q].ws \in Workspace
    /\ pass[q].pc \in {"swap", "displaced"} => pass[q].pkg \in Plain
    /\ pass[q].pc \in {"switch", "prune"} => pass[q].pkg \in Runtime
    /\ pass[q].pc = "remove" => pass[q].pkg \in Plain
    /\ pass[q].pc \in {"list", "rm"} => pass[q].pkg \in Runtime

(* Content without a marker was recognized as such.                          *)
Wary(q) ==
    /\ pass[q].pc = "swap" /\ home[pass[q].pkg] = Legacy => pass[q].prev = Legacy
    /\ pass[q].pc = "remove" => home[pass[q].pkg] # Legacy

(* The version that is linked next is there, and pruning spares it and the    *)
(* one before.                                                               *)
Linked(q) ==
    Undisputed(q) =>
        /\ pass[q].pc \in {"switch", "prune"} => pass[q].todo[pass[q].pkg] \in versions[pass[q].pkg]
        /\ pass[q].pc = "prune" => current[pass[q].pkg] = pass[q].todo[pass[q].pkg]
        /\ pass[q].pc = "prune" /\ ~overlapped /\ daemon.switched < 2 =>
             daemon.uses[pass[q].pkg] \in {None, pass[q].todo[pass[q].pkg], pass[q].prev}

(* Whether package p is as catalog c wants it.                               *)
Placement(p, c) == MarkerMatches(p, c[p]) /\ (p \in Runtime => current[p] = c[p])

(* What the record r of a pass no longer names is as catalog c wants it.      *)
Accounted(r, c) ==
    /\ \A p \in r.gone : c[p] = None
    /\ \A p \in Package : r.todo[p] # None => r.todo[p] = c[p]
    /\ \A p \in Package : c[p] = None /\ p \in delivered[r.ws] => p \in r.gone \/ ~Marked(p)
    /\ \A p \in Package : c[p] # None /\ r.todo[p] = None => Placement(p, c)

(* An undisturbed pass has done what it no longer has to do.                 *)
Thorough(q) ==
    pass[q].alone /\ pass[q].pc \notin {"idle", "asked"} /\ catalog[pass[q].ws] # Denied =>
        /\ pass[q].pc = "swap" => home[pass[q].pkg] # None
        /\ pass[q].pc = "displaced" => home[pass[q].pkg] = None
        /\ pass[q].pc = "remove" => ~pass[q].failed
        /\ pass[q].pc = "rm" => versions[pass[q].pkg] \subseteq pass[q].left
        /\ pass[q].pc \in {"remove", "list", "rm"} => pass[q].pkg \in pass[q].gone
        /\ Accounted(pass[q], catalog[pass[q].ws])

PassSound(q) == Placed(q) /\ Wary(q) /\ Linked(q) /\ Thorough(q)

PackagesInv ==
    /\ ProvisioningTypeOK
    /\ OnePass /\ FreshDaemon /\ CurrentResolves
    /\ \A q \in Pass : PassSound(q)

(* What a step of pass q does to the links: one that points nowhere did so    *)
(* before, or its removal is under way or cut short.                         *)
LinksLeft(q) ==
    \A r \in Runtime : ~overlapped /\ Dangling(r)' =>
        \/ Removing(r)' \/ r \in torn'
        \/ Dangling(r) /\ pass[q].pc # "rm" /\ (r \in torn => r \in torn')

-----------------------------------------------------------------------------
LEMMA Constants ==
    /\ None \notin Workspace /\ None \notin Package /\ None \notin Version /\ None \notin Pass
    /\ Legacy \notin Version /\ Legacy # None /\ Denied \notin Offer
    /\ \A p \in Runtime : p \notin Plain
    /\ \A c \in Offer : c \in [Package -> Version \cup {None}]
    /\ Plain \subseteq Package /\ Runtime \subseteq Package
    /\ \A p \in Package : p \notin Plain => p \in Runtime
    /\ Confirmations \in Nat \ {0} /\ MaxEvents \in Nat
BY ProvisioningAssumption DEF ProvisioningAssumption, Package

(* What a step of one pass that touches no unmarked content leaves as it was. *)
LEMMA OneMoves ==
    ASSUME PackagesInv, NEW q \in Pass, Under(q), NEW r \in PassState,
           pass' = [pass EXCEPT ![q] = r],
           r.pc \in {"fetched", "swap", "displaced", "switch", "prune"} =>
             r.pkg # None /\ r.todo[r.pkg] # None,
           r.alone => pass[q].alone,
           overlapped' = overlapped,
           \A p \in Plain : home'[p] = Legacy => home[p] = Legacy
    PROVE  /\ pass' \in [Pass -> PassState]
           /\ \A u \in Pass : pass'[u].pc \in {"fetched", "swap", "displaced", "switch", "prune"} =>
                pass'[u].pkg # None /\ pass'[u].todo[pass'[u].pkg] # None
           /\ OnePass'
           /\ \A u \in Pass \ {q} : PassSound(u)'
<1> USE Constants
<1>0. /\ pass \in [Pass -> PassState] /\ pass'[q] = r
      /\ \A u \in Pass \ {q} : pass'[u] = pass[u]
  BY DEF PackagesInv, ProvisioningTypeOK
<1>1. pass' \in [Pass -> PassState]
  BY <1>0
<1>2. \A u \in Pass : pass'[u].pc \in {"fetched", "swap", "displaced", "switch", "prune"} =>
         pass'[u].pkg # None /\ pass'[u].todo[pass'[u].pkg] # None
  BY <1>0 DEF PackagesInv, ProvisioningTypeOK
<1>3. OnePass'
  BY <1>0 DEF PackagesInv, OnePass, Under, Undisputed
<1>4. ASSUME NEW u \in Pass \ {q} PROVE PassSound(u)'
  <2>0. PassSound(u) /\ pass'[u] = pass[u]
    BY <1>0 DEF PackagesInv
  <2>1. Placed(u)'
    BY <2>0 DEF PassSound, Placed, Under
  <2>2. Wary(u)'
    BY <2>0 DEF PassSound, Placed, Wary
  <2>3. CASE ~Under(u)
    BY <2>0, <2>1, <2>2, <2>3 DEF PassSound, Linked, Thorough, Under
  <2>4. CASE Under(u)
    <3>1. ~Undisputed(u)
      BY <2>4 DEF PackagesInv, OnePass
    <3>2. ~Undisputed(u)' /\ ~pass'[u].alone
      BY <2>0, <3>1 DEF Undisputed
    <3> QED
      BY <2>1, <2>2, <3>2 DEF PassSound, Linked, Thorough
  <2> QED
    BY <2>3, <2>4
<1> QED
  BY <1>1, <1>2, <1>3, <1>4

(* Records of passes.                                                        *)
LEMMA RecordsTyped ==
    ASSUME ProvisioningTypeOK, NEW q \in Pass, NEW p \in Package
    PROVE  /\ Idle \in PassState
           /\ Done(q, p) \in PassState
           /\ Settled(q, p) \in PassState
           /\ \A w \in Workspace : Asking(w) \in PassState
<1> USE Constants
<1>0. pass[q] \in PassState
  BY DEF ProvisioningTypeOK
<1>1. Idle \in PassState
  BY DEF Idle, PassState
<1>2. Done(q, p) \in PassState
  BY <1>0 DEF Done, PassState
<1>3. Settled(q, p) \in PassState
  BY <1>0 DEF Settled, PassState
<1>4. \A w \in Workspace : Asking(w) \in PassState
  BY <1>1 DEF Asking, PassState
<1> QED
  BY <1>1, <1>2, <1>3, <1>4

LEMMA Fields ==
    ASSUME ProvisioningTypeOK, NEW q \in Pass, NEW p \in Package
    PROVE  /\ Done(q, p).pc = "next" /\ Done(q, p).ws = pass[q].ws
           /\ Done(q, p).todo = [pass[q].todo EXCEPT ![p] = None]
           /\ Done(q, p).gone = pass[q].gone /\ Done(q, p).alone = pass[q].alone
           /\ Settled(q, p).pc = "next" /\ Settled(q, p).ws = pass[q].ws
           /\ Settled(q, p).todo = pass[q].todo
           /\ Settled(q, p).gone = pass[q].gone \ {p} /\ Settled(q, p).alone = pass[q].alone
           /\ pass[q].todo \in [Package -> Version \cup {None}]
           /\ pass[q].gone \subseteq Package /\ pass[q].alone \in BOOLEAN
<1>0. pass[q] \in PassState
  BY DEF ProvisioningTypeOK
<1> QED
  BY <1>0 DEF Done, Settled, PassState

(* A step of one pass that leaves the links in order.                        *)
LEMMA LinksGood ==
    ASSUME PackagesInv, NEW q \in Pass, NEW r, pass' = [pass EXCEPT ![q] = r],
           overlapped' = overlapped, LinksLeft(q)
    PROVE  CurrentResolves'
<1>0. \A u \in Pass \ {q} : pass'[u] = pass[u]
  BY DEF PackagesInv, ProvisioningTypeOK
<1> SUFFICES ASSUME ~overlapped, NEW x \in Runtime, Dangling(x)'
             PROVE  Removing(x)' \/ x \in torn'
  BY DEF CurrentResolves
<1>1. CASE Dangling(x) /\ pass[q].pc # "rm" /\ (x \in torn => x \in torn')
  <2>1. Removing(x) \/ x \in torn
    BY <1>1 DEF PackagesInv, CurrentResolves
  <2> QED
    BY <1>0, <1>1, <2>1 DEF Removing
<1> QED
  BY <1>1 DEF LinksLeft

(* A pass that goes on leaves the invariant, if it left what it may rely on   *)
(* itself, the links and the daemon in order.                                *)
LEMMA PassGoesOn ==
    ASSUME PackagesInv, NEW q \in Pass, Under(q), NEW r \in PassState,
           pass' = [pass EXCEPT ![q] = r], r.pc # "idle",
           r.pc \in {"fetched", "swap", "displaced", "switch", "prune"} =>
             r.pkg # None /\ r.todo[r.pkg] # None,
           r.alone => pass[q].alone,
           UNCHANGED <<server, bound, inflight, proof, pending, overlapped>>,
           events' \in 0..MaxEvents,
           home' \in [Plain -> Version \cup {None, Legacy}], aside' \subseteq Plain,
           \A p \in Plain : home'[p] = Legacy => home[p] = Legacy,
           versions' \in [Runtime -> SUBSET Version],
           current' \in [Runtime -> Version \cup {None}], torn' \subseteq Runtime,
           daemon' \in [busy : BOOLEAN, uses : [Runtime -> Version \cup {None}], switched : 0..2],
           FreshDaemon', LinksLeft(q), PassSound(q)'
    PROVE  PackagesInv'
<1>0. pass \in [Pass -> PassState]
  BY DEF PackagesInv, ProvisioningTypeOK
<1>1. overlapped' = overlapped
  OBVIOUS
<1>2. /\ pass' \in [Pass -> PassState]
      /\ \A u \in Pass : pass'[u].pc \in {"fetched", "swap", "displaced", "switch", "prune"} =>
           pass'[u].pkg # None /\ pass'[u].todo[pass'[u].pkg] # None
      /\ OnePass'
      /\ \A u \in Pass \ {q} : PassSound(u)'
  BY <1>1, OneMoves
<1>3. inflight' # None => Under(inflight)'
  BY <1>0 DEF PackagesInv, ProvisioningTypeOK, Under
<1>4. ProvisioningTypeOK'
  BY <1>2, <1>3 DEF PackagesInv, ProvisioningTypeOK, server, proof
<1>5. CurrentResolves'
  BY LinksGood
<1> QED
  BY <1>2, <1>4, <1>5 DEF PackagesInv

LEMMA QuietKeeps ==
    ASSUME PackagesInv, NEW q \in Pass, Quiet(q)
    PROVE  /\ UNCHANGED <<server, bound, inflight, proof, pending, overlapped>>
           /\ UNCHANGED <<catalog, delivered, daemon>>
           /\ events' \in 0..MaxEvents /\ Under(q)
           /\ daemon' \in [busy : BOOLEAN, uses : [Runtime -> Version \cup {None}], switched : 0..2]
           /\ versions' = versions /\ current' = current => FreshDaemon'
           /\ home' = home => /\ home' \in [Plain -> Version \cup {None, Legacy}]
                              /\ \A p \in Plain : home'[p] = Legacy => home[p] = Legacy
           /\ aside' = aside => aside' \subseteq Plain
           /\ versions' = versions => versions' \in [Runtime -> SUBSET Version]
           /\ current' = current => current' \in [Runtime -> Version \cup {None}]
           /\ torn' = torn => torn' \subseteq Runtime
           /\ UNCHANGED <<versions, current, torn>> /\ pass[q].pc # "rm" => LinksLeft(q)
BY DEF PackagesInv, ProvisioningTypeOK, Quiet, env, server, Under, FreshDaemon, Resolved,
       LinksLeft, Dangling

LEMMA NextSound ==
    ASSUME NEW q \in Pass, pass'[q].pc = "next", pass'[q].ws \in Workspace,
           pass'[q].alone /\ catalog'[pass'[q].ws] # Denied =>
             Accounted(pass[q], catalog[pass[q].ws])'
    PROVE  PassSound(q)'
BY DEF PassSound, Placed, Wary, Linked, Thorough, Under

LEMMA DoneAccounted ==
    ASSUME ProvisioningTypeOK, NEW q \in Pass, NEW p \in Package, NEW c,
           Accounted(pass[q], c),
           pass'[q].todo = [pass[q].todo EXCEPT ![p] = None],
           pass'[q].gone = pass[q].gone, pass'[q].ws = pass[q].ws, delivered' = delivered,
           c[p] # None => Placement(p, c)',
           c[p] = None => (Marked(p)' => Marked(p)),
           \A x \in Package \ {p} : (Placement(x, c) => Placement(x, c)') /\ (Marked(x)' => Marked(x))
    PROVE  Accounted(pass[q], c)'
<1>1. pass[q].todo \in [Package -> Version \cup {None}]
  BY Fields
<1>2. pass'[q].todo[p] = None /\ \A x \in Package \ {p} : pass'[q].todo[x] = pass[q].todo[x]
  BY <1>1
<1> QED
  BY <1>2 DEF Accounted

(* A step that ends the work on package p.                                   *)
LEMMA PassIsDone ==
    ASSUME PackagesInv, NEW q \in Pass, NEW p \in Package,
           pass[q].pc \notin {"idle", "asked"}, NEW d \in PassState,
           pass' = [pass EXCEPT ![q] = d],
           d.pc = "next", d.ws = pass[q].ws, d.gone = pass[q].gone,
           d.todo = [pass[q].todo EXCEPT ![p] = None], d.alone => pass[q].alone,
           UNCHANGED <<server, bound, inflight, proof, pending, overlapped>>,
           events' \in 0..MaxEvents,
           home' \in [Plain -> Version \cup {None, Legacy}], aside' \subseteq Plain,
           \A x \in Plain : home'[x] = Legacy => home[x] = Legacy,
           versions' \in [Runtime -> SUBSET Version],
           current' \in [Runtime -> Version \cup {None}], torn' \subseteq Runtime,
           daemon' \in [busy : BOOLEAN, uses : [Runtime -> Version \cup {None}], switched : 0..2],
           FreshDaemon', LinksLeft(q),
           \A c \in Offer : d.alone /\ Thorough(q) /\ c = catalog[pass[q].ws] /\ Accounted(pass[q], c) =>
             /\ c[p] # None => Placement(p, c)'
             /\ c[p] = None => (Marked(p)' => Marked(p))
             /\ \A x \in Package \ {p} :
                  (Placement(x, c) => Placement(x, c)') /\ (Marked(x)' => Marked(x))
    PROVE  PackagesInv'
<1>0. /\ pass[q] \in PassState /\ pass'[q] = d /\ Under(q) /\ PassSound(q) /\ ProvisioningTypeOK
      /\ pass[q].ws \in Workspace
  BY DEF PackagesInv, ProvisioningTypeOK, Under, PassSound, Placed
<1>1. catalog' = catalog /\ delivered' = delivered
  BY DEF server
<1>2. ASSUME pass'[q].alone, catalog'[pass'[q].ws] # Denied
      PROVE  Accounted(pass[q], catalog[pass[q].ws])'
  <2>1. PICK c \in Offer : c = catalog[pass[q].ws]
    BY <1>0, <1>1, <1>2 DEF ProvisioningTypeOK
  <2>2. d.alone /\ Thorough(q) /\ Accounted(pass[q], c)
    BY <1>0, <1>1, <1>2, <2>1 DEF PassSound, Thorough, Accounted
  <2>3. /\ c[p] # None => Placement(p, c)'
        /\ c[p] = None => (Marked(p)' => Marked(p))
        /\ \A x \in Package \ {p} :
             (Placement(x, c) => Placement(x, c)') /\ (Marked(x)' => Marked(x))
    BY <2>1, <2>2
  <2>4. Accounted(pass[q], c)'
    BY <1>0, <1>1, <2>2, <2>3, DoneAccounted
  <2> QED
    BY <1>0, <1>1, <2>1, <2>4 DEF Accounted
<1>3. PassSound(q)'
  BY <1>0, <1>2, NextSound
<1> QED
  BY <1>0, <1>3, PassGoesOn

(* A step that leaves what is to do as it was.                               *)
LEMMA StillAccounted ==
    ASSUME PackagesInv, NEW q \in Pass, pass[q].pc \notin {"idle", "asked"},
           pass'[q].todo = pass[q].todo, pass'[q].gone = pass[q].gone,
           pass'[q].ws = pass[q].ws, pass'[q].alone => pass[q].alone,
           catalog' = catalog, delivered' = delivered,
           pass'[q].alone, catalog'[pass'[q].ws] # Denied,
           \A c \in Offer, x \in Package :
             c = catalog[pass[q].ws] /\ Thorough(q) =>
               /\ c[x] # None /\ pass[q].todo[x] = None /\ Placement(x, c) => Placement(x, c)'
               /\ c[x] = None => (Marked(x)' => Marked(x))
    PROVE  Accounted(pass[q], catalog[pass[q].ws])'
<1>0. PassSound(q) /\ ProvisioningTypeOK /\ pass[q].ws \in Workspace
  BY DEF PackagesInv, PassSound, Placed, Under
<1>1. PICK c \in Offer : c = catalog[pass[q].ws]
  BY <1>0 DEF ProvisioningTypeOK
<1>2. Accounted(pass[q], c) /\ Thorough(q)
  BY <1>0, <1>1, Constants DEF PassSound, Thorough, Accounted
<1>3. Accounted(pass[q], c)'
  BY <1>1, <1>2 DEF Accounted
<1> QED
  BY <1>1, <1>3 DEF Accounted

-----------------------------------------------------------------------------
(* syncOnePackage.                                                           *)

LEMMA AlreadyInstalledSound ==
    ASSUME PackagesInv, NEW q \in Pass, NEW p \in Package, AlreadyInstalled(q, p)
    PROVE  PackagesInv'
<1> DEFINE v == pass[q].todo[p]
           link == [pass[q] EXCEPT !.pc = "switch", !.pkg = p]
<1>0. /\ pass[q] \in PassState /\ pass \in [Pass -> PassState] /\ ProvisioningTypeOK
      /\ pass[q].pc = "next" /\ v # None /\ MarkerMatches(p, v)
      /\ Quiet(q) /\ PassSound(q)
      /\ UNCHANGED <<home, aside, versions, current, torn>>
  BY DEF PackagesInv, ProvisioningTypeOK, AlreadyInstalled, plain, runtime
<1>1. UNCHANGED <<catalog, delivered, overlapped>>
  BY <1>0, QuietKeeps
<1>2. \A x \in Package : \A c : (Placement(x, c)' <=> Placement(x, c)) /\ (Marked(x)' <=> Marked(x))
  BY <1>0 DEF Placement, MarkerMatches, Marked
<1>3. CASE p \in Runtime /\ Resolved(p) # v
  <2>1. /\ link \in PassState
        /\ link.pc = "switch" /\ link.pkg = p /\ link.todo = pass[q].todo /\ link.ws = pass[q].ws
        /\ link.alone = pass[q].alone /\ link.gone = pass[q].gone
    BY <1>0 DEF PassState
  <2>2. pass' = [pass EXCEPT ![q] = link] /\ pass'[q] = link
    BY <1>0, <1>3 DEF AlreadyInstalled
  <2> HIDE DEF link
  <2>3. Placed(q)' /\ Wary(q)' /\ Linked(q)'
    BY <1>0, <1>1, <1>3, <2>1, <2>2, Constants
       DEF PassSound, Placed, Under, Wary, Linked, Undisputed, MarkerMatches
  <2>4. Thorough(q)'
    BY <1>0, <1>1, <1>2, <2>1, <2>2, StillAccounted DEF Thorough
  <2> QED
    BY <1>0, <2>1, <2>2, <2>3, <2>4, QuietKeeps, PassGoesOn, Constants DEF PassSound
<1>4. CASE ~(p \in Runtime /\ Resolved(p) # v)
  <2>1. pass' = [pass EXCEPT ![q] = Done(q, p)]
    BY <1>0, <1>4 DEF AlreadyInstalled
  <2>2. \A c \in Offer : c = catalog[pass[q].ws] /\ Accounted(pass[q], c) =>
          /\ c[p] # None => Placement(p, c)'
          /\ c[p] = None => (Marked(p)' => Marked(p))
          /\ \A x \in Package \ {p} :
               (Placement(x, c) => Placement(x, c)') /\ (Marked(x)' => Marked(x))
    <3>1. \A c \in Offer : Accounted(pass[q], c) => Placement(p, c)
      BY <1>0, <1>4 DEF Accounted, Placement, Resolved
    <3> QED
      BY <1>2, <3>1
  <2>3. /\ Done(q, p) \in PassState /\ pass[q].pc \notin {"idle", "asked"}
        /\ Done(q, p).pc = "next" /\ Done(q, p).ws = pass[q].ws /\ Done(q, p).gone = pass[q].gone
        /\ Done(q, p).todo = [pass[q].todo EXCEPT ![p] = None]
        /\ Done(q, p).alone => pass[q].alone
    BY <1>0, RecordsTyped, Fields
  <2> QED
    BY <1>0, <2>1, <2>2, <2>3, QuietKeeps, PassIsDone
<1> QED
  BY <1>3, <1>4

LEMMA FetchSound ==
    ASSUME PackagesInv, NEW q \in Pass, NEW p \in Package, Fetch(q, p)
    PROVE  PackagesInv'
<1> DEFINE d == [pass[q] EXCEPT !.pc = "fetched", !.pkg = p]
<1>0. /\ pass[q] \in PassState /\ pass \in [Pass -> PassState] /\ ProvisioningTypeOK
      /\ pass[q].pc = "next" /\ pass[q].todo[p] # None
      /\ Quiet(q) /\ PassSound(q)
      /\ UNCHANGED <<home, aside, versions, current, torn>>
  BY DEF PackagesInv, ProvisioningTypeOK, Fetch, plain, runtime
<1>1. UNCHANGED <<catalog, delivered>>
  BY <1>0, QuietKeeps
<1>2. /\ d \in PassState
      /\ d.pc = "fetched" /\ d.pkg = p /\ d.todo = pass[q].todo /\ d.ws = pass[q].ws
      /\ d.alone = pass[q].alone /\ d.gone = pass[q].gone
  BY <1>0 DEF PassState
<1>3. pass' = [pass EXCEPT ![q] = d] /\ pass'[q] = d
  BY <1>0 DEF Fetch
<1> HIDE DEF d
<1>4. Placed(q)' /\ Wary(q)' /\ Linked(q)'
  BY <1>0, <1>2, <1>3 DEF PassSound, Placed, Under, Wary, Linked
<1>5. \A x \in Package : \A c : (Placement(x, c)' <=> Placement(x, c)) /\ (Marked(x)' <=> Marked(x))
  BY <1>0 DEF Placement, MarkerMatches, Marked
<1>6. Thorough(q)'
  BY <1>0, <1>1, <1>2, <1>3, <1>5, StillAccounted DEF Thorough
<1> QED
  BY <1>0, <1>2, <1>3, <1>4, <1>6, QuietKeeps, PassGoesOn, Constants DEF PassSound

LEMMA MoreFields ==
    ASSUME ProvisioningTypeOK, NEW q \in Pass, NEW p \in Package
    PROVE  /\ \A d \in {[Done(q, p) EXCEPT !.alone = FALSE], [Done(q, p) EXCEPT !.changed = TRUE]} :
                /\ d \in PassState /\ d.pc = "next" /\ d.ws = pass[q].ws /\ d.gone = pass[q].gone
                /\ d.todo = [pass[q].todo EXCEPT ![p] = None] /\ (d.alone => pass[q].alone)
           /\ [Done(q, p) EXCEPT !.alone = FALSE].alone = FALSE
           /\ Done(q, p) \in PassState /\ Done(q, p).pc = "next" /\ Done(q, p).ws = pass[q].ws
           /\ Done(q, p).gone = pass[q].gone /\ Done(q, p).todo = [pass[q].todo EXCEPT ![p] = None]
           /\ Done(q, p).alone => pass[q].alone
<1>1. Done(q, p) \in PassState
  BY RecordsTyped
<1>2. ASSUME NEW d \in {[Done(q, p) EXCEPT !.alone = FALSE], [Done(q, p) EXCEPT !.changed = TRUE]}
      PROVE  /\ d \in PassState /\ d.pc = "next" /\ d.ws = pass[q].ws /\ d.gone = pass[q].gone
             /\ d.todo = [pass[q].todo EXCEPT ![p] = None] /\ (d.alone => pass[q].alone)
  <2>1. /\ d \in PassState /\ d.pc = Done(q, p).pc /\ d.ws = Done(q, p).ws
        /\ d.gone = Done(q, p).gone /\ d.todo = Done(q, p).todo /\ (d.alone => Done(q, p).alone)
    BY <1>1, <1>2 DEF PassState
  <2> QED
    BY <2>1, Fields
<1>3. [Done(q, p) EXCEPT !.alone = FALSE].alone = FALSE
  BY <1>1 DEF PassState
<1> QED
  BY <1>1, <1>2, <1>3, Fields

(* A step that gives package p up.                                           *)
LEMMA PassGivesUp ==
    ASSUME PackagesInv, NEW q \in Pass, NEW p \in Package,
           pass[q].pc \notin {"idle", "asked", "rm"},
           pass' = [pass EXCEPT ![q] = [Done(q, p) EXCEPT !.alone = FALSE]],
           UNCHANGED <<server, bound, inflight, proof, daemon, pending, overlapped>>,
           events' \in 0..MaxEvents,
           home' \in [Plain -> Version \cup {None, Legacy}], aside' = aside,
           \A x \in Plain : home'[x] = Legacy => home[x] = Legacy,
           versions' = versions, current' = current, torn' = torn
    PROVE  PackagesInv'
<1> DEFINE d == [Done(q, p) EXCEPT !.alone = FALSE]
<1>1. ProvisioningTypeOK /\ FreshDaemon' /\ LinksLeft(q) /\ torn' \subseteq Runtime
  BY DEF PackagesInv, ProvisioningTypeOK, FreshDaemon, Resolved, LinksLeft, Dangling
<1>2. /\ d \in PassState /\ d.pc = "next" /\ d.ws = pass[q].ws /\ d.gone = pass[q].gone
      /\ d.todo = [pass[q].todo EXCEPT ![p] = None] /\ d.alone = FALSE
  BY <1>1, MoreFields
<1>3. /\ aside' \subseteq Plain /\ versions' \in [Runtime -> SUBSET Version]
      /\ current' \in [Runtime -> Version \cup {None}]
      /\ daemon' \in [busy : BOOLEAN, uses : [Runtime -> Version \cup {None}], switched : 0..2]
  BY <1>1 DEF ProvisioningTypeOK
<1> HIDE DEF d
<1>4. pass' = [pass EXCEPT ![q] = d]
  BY DEF d
<1> QED
  BY <1>1, <1>2, <1>3, <1>4, PassIsDone

LEMMA EventCounted == ASSUME PackagesInv, Event PROVE events' \in 0..MaxEvents
BY Constants DEF PackagesInv, ProvisioningTypeOK, Event

LEMMA FetchFailsSound ==
    ASSUME PackagesInv, NEW q \in Pass, NEW p \in Package, FetchFails(q, p)
    PROVE  PackagesInv'
<1>1. /\ pass[q].pc = "next" /\ Event
      /\ pass' = [pass EXCEPT ![q] = [Done(q, p) EXCEPT !.alone = FALSE]]
      /\ UNCHANGED <<server, bound, inflight, proof, daemon, pending, overlapped>>
      /\ UNCHANGED <<home, aside, versions, current, torn>>
  BY DEF FetchFails, plain, runtime, env
<1>2. home' \in [Plain -> Version \cup {None, Legacy}]
  BY <1>1 DEF PackagesInv, ProvisioningTypeOK
<1> QED
  BY <1>1, <1>2, EventCounted, PassGivesUp

-----------------------------------------------------------------------------
(* atomicSwapInstall.                                                        *)

(* What a pass has in hand when it installs.                                 *)
LEMMA InHand ==
    ASSUME PackagesInv, NEW q \in Pass,
           pass[q].pc \in {"fetched", "swap", "displaced", "switch", "prune"}
    PROVE  /\ pass[q].pkg \in Package /\ pass[q].todo[pass[q].pkg] \in Version
           /\ pass[q] \in PassState /\ pass \in [Pass -> PassState]
           /\ ProvisioningTypeOK /\ PassSound(q) /\ Under(q)
           /\ home \in [Plain -> Version \cup {None, Legacy}]
           /\ versions \in [Runtime -> SUBSET Version]
           /\ current \in [Runtime -> Version \cup {None}]
<1>1. pass[q] \in PassState /\ pass[q].pkg # None /\ pass[q].todo[pass[q].pkg] # None
  BY DEF PackagesInv, ProvisioningTypeOK
<1>2. pass[q].pkg \in Package /\ pass[q].todo \in [Package -> Version \cup {None}]
  BY <1>1 DEF PassState
<1> QED
  BY <1>1, <1>2 DEF PackagesInv, ProvisioningTypeOK, Under

(* The records of a pass that goes on to the link.                           *)
LEMMA SwitchFields ==
    ASSUME NEW q \in Pass, pass[q] \in PassState,
           NEW d \in {[pass[q] EXCEPT !.pc = "switch"],
                      [pass[q] EXCEPT !.pc = "switch", !.prev = None, !.changed = TRUE]}
    PROVE  /\ d \in PassState /\ d.pc = "switch" /\ d.pkg = pass[q].pkg /\ d.todo = pass[q].todo
           /\ d.ws = pass[q].ws /\ d.alone = pass[q].alone /\ d.gone = pass[q].gone
<1>1. CASE d = [pass[q] EXCEPT !.pc = "switch"]
  BY <1>1 DEF PassState
<1>2. CASE d = [pass[q] EXCEPT !.pc = "switch", !.prev = None, !.changed = TRUE]
  BY <1>2 DEF PassState
<1> QED
  BY <1>1, <1>2

LEMMA InstallFreshSound ==
    ASSUME PackagesInv, NEW q \in Pass, InstallFresh(q)
    PROVE  PackagesInv'
<1>a. PICK p \in Package, v \in Version : p = pass[q].pkg /\ v = pass[q].todo[p]
  BY InHand DEF InstallFresh
<1>0. /\ p = pass[q].pkg /\ v = pass[q].todo[p] /\ pass[q].pc = "fetched" /\ Quiet(q)
      /\ pass[q] \in PassState /\ pass \in [Pass -> PassState] /\ ProvisioningTypeOK /\ PassSound(q)
      /\ home \in [Plain -> Version \cup {None, Legacy}]
      /\ versions \in [Runtime -> SUBSET Version]
  BY <1>a, InHand DEF InstallFresh
<1>1. UNCHANGED <<catalog, delivered, aside, current, overlapped, daemon>>
  BY <1>0, QuietKeeps DEF InstallFresh, runtime, plain
<1>2. CASE p \in Plain
  <2> DEFINE d == [Done(q, p) EXCEPT !.changed = TRUE]
  <2>1. /\ home[p] = None /\ home' = [home EXCEPT ![p] = v]
        /\ versions' = versions /\ torn' = torn /\ pass' = [pass EXCEPT ![q] = d]
    BY <1>0, <1>2, Constants DEF InstallFresh, Installed, runtime
  <2>2. /\ d \in PassState /\ d.pc = "next" /\ d.ws = pass[q].ws /\ d.gone = pass[q].gone
        /\ d.todo = [pass[q].todo EXCEPT ![p] = None] /\ (d.alone => pass[q].alone)
    BY <1>0, MoreFields
  <2>3. /\ home' \in [Plain -> Version \cup {None, Legacy}]
        /\ \A x \in Plain : home'[x] = Legacy => home[x] = Legacy
    BY <1>0, <2>1, Constants
  <2>4. \A c \in Offer : c = catalog[pass[q].ws] /\ Accounted(pass[q], c) =>
          /\ c[p] # None => Placement(p, c)'
          /\ c[p] = None => (Marked(p)' => Marked(p))
          /\ \A x \in Package \ {p} :
               (Placement(x, c) => Placement(x, c)') /\ (Marked(x)' => Marked(x))
    <3> SUFFICES ASSUME NEW c \in Offer, Accounted(pass[q], c)
                 PROVE  /\ c[p] # None => Placement(p, c)'
                        /\ c[p] = None => (Marked(p)' => Marked(p))
                        /\ \A x \in Package \ {p} :
                             (Placement(x, c) => Placement(x, c)') /\ (Marked(x)' => Marked(x))
      OBVIOUS
    <3>1. c[p] = v /\ v # None
      BY <1>0, Constants DEF Accounted
    <3>2. Placement(p, c)'
      BY <1>0, <1>2, <2>1, <3>1, Constants DEF Placement, MarkerMatches
    <3>3. ASSUME NEW x \in Package \ {p}
          PROVE  (Placement(x, c) => Placement(x, c)') /\ (Marked(x)' => Marked(x))
      BY <1>0, <1>1, <2>1 DEF Placement, MarkerMatches, Marked
    <3> QED
      BY <3>1, <3>2, <3>3
  <2> HIDE DEF d
  <2> QED
    BY <1>0, <1>1, <2>1, <2>2, <2>3, <2>4, QuietKeeps, PassIsDone
<1>3. CASE p \notin Plain
  <2> DEFINE d == [pass[q] EXCEPT !.pc = "switch", !.prev = None, !.changed = TRUE]
  <2>1. /\ p \in Runtime /\ versions' = [versions EXCEPT ![p] = @ \cup {v}]
        /\ home' = home /\ torn' = torn /\ pass' = [pass EXCEPT ![q] = d] /\ pass'[q] = d
    BY <1>0, <1>3, Constants DEF InstallFresh, Installed, plain
  <2>2. /\ d \in PassState /\ d.pc = "switch" /\ d.pkg = p /\ d.todo = pass[q].todo
        /\ d.ws = pass[q].ws /\ d.alone = pass[q].alone /\ d.gone = pass[q].gone
    BY <1>0, SwitchFields
  <2>3. /\ versions' \in [Runtime -> SUBSET Version]
        /\ \A x \in Runtime : versions[x] \subseteq versions'[x] /\ (x # p => versions'[x] = versions[x])
        /\ v \in versions'[p]
    BY <1>0, <2>1
  <2> HIDE DEF d
  <2>4. LinksLeft(q) /\ FreshDaemon' /\ torn' \subseteq Runtime
    BY <1>0, <1>1, <2>1, <2>3
       DEF PackagesInv, ProvisioningTypeOK, LinksLeft, Dangling, FreshDaemon, Resolved
  <2>5. Placed(q)' /\ Wary(q)' /\ Linked(q)'
    BY <1>0, <2>1, <2>2, <2>3 DEF PassSound, Placed, Under, Wary, Linked
  <2>6. \A c \in Offer, x \in Package : c = catalog[pass[q].ws] /\ Thorough(q) /\ pass[q].alone =>
          /\ c[x] # None /\ pass[q].todo[x] = None /\ Placement(x, c) => Placement(x, c)'
          /\ c[x] = None => (Marked(x)' => Marked(x))
    <3> SUFFICES ASSUME NEW c \in Offer, NEW x \in Package, c = catalog[pass[q].ws],
                        Thorough(q), pass[q].alone
                 PROVE  /\ Placement(x, c) => Placement(x, c)'
                        /\ c[x] = None => (Marked(x)' => Marked(x))
      OBVIOUS
    <3>1. c[p] = v /\ v # None
      BY <1>0, Constants DEF Thorough, Accounted
    <3> QED
      BY <1>1, <2>1, <2>3, <3>1, Constants DEF Placement, MarkerMatches, Marked
  <2>7. Thorough(q)'
    BY <1>0, <1>1, <2>1, <2>2, <2>6, StillAccounted DEF Thorough
  <2>8. aside' \subseteq Plain /\ Under(q) /\ events' \in 0..MaxEvents
    BY <1>0, <1>1, QuietKeeps
  <2>9. /\ current' \in [Runtime -> Version \cup {None}]
        /\ home' \in [Plain -> Version \cup {None, Legacy}]
        /\ \A x \in Plain : home'[x] = Legacy => home[x] = Legacy
        /\ daemon' \in [busy : BOOLEAN, uses : [Runtime -> Version \cup {None}], switched : 0..2]
        /\ UNCHANGED <<server, bound, inflight, proof, pending, overlapped>>
    BY <1>0, <1>1, <2>1, QuietKeeps
  <2>10. d.pkg # None /\ d.todo[d.pkg] # None
    BY <1>0, <2>2, Constants
  <2>11. PassSound(q)'
    BY <2>5, <2>7 DEF PassSound
  <2> QED
    BY <2>1, <2>2, <2>3, <2>4, <2>8, <2>9, <2>10, <2>11, PassGoesOn
<1> QED
  BY <1>2, <1>3
LEMMA SameFiles ==
    ASSUME UNCHANGED <<home, versions, current>>, NEW p, NEW c
    PROVE  (Placement(p, c)' <=> Placement(p, c)) /\ (Marked(p)' <=> Marked(p))
BY DEF Placement, MarkerMatches, Marked

LEMMA InstallSkippedSound ==
    ASSUME PackagesInv, NEW q \in Pass, InstallSkipped(q)
    PROVE  PackagesInv'
<1>a. PICK p \in Package, v \in Version : p = pass[q].pkg /\ v = pass[q].todo[p]
  BY InHand DEF InstallSkipped
<1>0. /\ pass[q].pc = "fetched" /\ Quiet(q) /\ MarkerMatches(p, v)
      /\ pass[q] \in PassState /\ pass \in [Pass -> PassState] /\ ProvisioningTypeOK /\ PassSound(q)
      /\ UNCHANGED <<home, aside, versions, current, torn>>
  BY <1>a, InHand DEF InstallSkipped, plain, runtime
<1>1. UNCHANGED <<catalog, delivered>>
  BY <1>0, QuietKeeps
<1>2. CASE p \in Runtime
  <2> DEFINE d == [pass[q] EXCEPT !.pc = "switch"]
  <2>1. pass' = [pass EXCEPT ![q] = d] /\ pass'[q] = d
    BY <1>a, <1>0, <1>2 DEF InstallSkipped
  <2>2. /\ d \in PassState /\ d.pc = "switch" /\ d.pkg = p /\ d.todo = pass[q].todo
        /\ d.ws = pass[q].ws /\ d.alone = pass[q].alone /\ d.gone = pass[q].gone
    BY <1>a, <1>0, SwitchFields
  <2> HIDE DEF d
  <2>3. Placed(q)' /\ Wary(q)' /\ Linked(q)'
    BY <1>a, <1>0, <1>2, <2>1, <2>2, Constants
       DEF PassSound, Placed, Under, Wary, Linked, MarkerMatches
  <2>4. Thorough(q)'
    BY <1>0, <1>1, <2>1, <2>2, SameFiles, StillAccounted DEF Thorough
  <2>5. d.pkg # None /\ d.todo[d.pkg] # None
    BY <1>a, <2>2, Constants
  <2> QED
    BY <1>0, <2>1, <2>2, <2>3, <2>4, <2>5, QuietKeeps, PassGoesOn DEF PassSound
<1>3. CASE p \notin Runtime
  <2>1. pass' = [pass EXCEPT ![q] = Done(q, p)]
    BY <1>a, <1>0, <1>3 DEF InstallSkipped
  <2>2. \A c \in Offer : c = catalog[pass[q].ws] /\ Accounted(pass[q], c) =>
          /\ c[p] # None => Placement(p, c)'
          /\ c[p] = None => (Marked(p)' => Marked(p))
          /\ \A x \in Package \ {p} :
               (Placement(x, c) => Placement(x, c)') /\ (Marked(x)' => Marked(x))
    <3>1. \A c \in Offer : Accounted(pass[q], c) => Placement(p, c)
      BY <1>a, <1>0, <1>3, Constants DEF Accounted, Placement
    <3> QED
      BY <1>0, <3>1, SameFiles
  <2>3. /\ Done(q, p) \in PassState /\ pass[q].pc \notin {"idle", "asked"}
        /\ Done(q, p).pc = "next" /\ Done(q, p).ws = pass[q].ws /\ Done(q, p).gone = pass[q].gone
        /\ Done(q, p).todo = [pass[q].todo EXCEPT ![p] = None]
        /\ Done(q, p).alone => pass[q].alone
    BY <1>0, MoreFields
  <2> QED
    BY <1>0, <2>1, <2>2, <2>3, QuietKeeps, PassIsDone
<1> QED
  BY <1>2, <1>3

LEMMA AskDaemonSound ==
    ASSUME PackagesInv, NEW q \in Pass, AskDaemon(q)
    PROVE  PackagesInv'
<1>a. PICK p \in Package, v \in Version : p = pass[q].pkg /\ v = pass[q].todo[p]
  BY InHand DEF AskDaemon
<1>0. /\ pass[q].pc = "fetched" /\ Quiet(q) /\ p \in Plain /\ home[p] # None
      /\ pass[q] \in PassState /\ pass \in [Pass -> PassState] /\ ProvisioningTypeOK /\ PassSound(q)
      /\ home \in [Plain -> Version \cup {None, Legacy}]
      /\ UNCHANGED <<home, aside, versions, current, torn>>
  BY <1>a, InHand DEF AskDaemon, plain, runtime
<1>1. UNCHANGED <<catalog, delivered, daemon>>
  BY <1>0, QuietKeeps
<1>2. CASE daemon.busy
  <2>1. pass' = [pass EXCEPT ![q] = [Done(q, p) EXCEPT !.alone = FALSE]]
    BY <1>a, <1>0, <1>2 DEF AskDaemon
  <2>2. pass[q].pc \notin {"idle", "asked", "rm"}
    BY <1>0
  <2> QED
    BY <1>0, <1>1, <2>1, <2>2, QuietKeeps, PassGivesUp
<1>3. CASE ~daemon.busy
  <2> DEFINE d == [pass[q] EXCEPT !.pc = "swap", !.prev = home[p]]
  <2>1. pass' = [pass EXCEPT ![q] = d] /\ pass'[q] = d
    BY <1>a, <1>0, <1>3 DEF AskDaemon
  <2>2. /\ d \in PassState /\ d.pc = "swap" /\ d.pkg = p /\ d.todo = pass[q].todo /\ d.prev = home[p]
        /\ d.ws = pass[q].ws /\ d.alone = pass[q].alone /\ d.gone = pass[q].gone
    BY <1>a, <1>0 DEF PassState
  <2> HIDE DEF d
  <2>3. Placed(q)' /\ Wary(q)' /\ Linked(q)'
    BY <1>0, <2>1, <2>2 DEF PassSound, Placed, Under, Wary, Linked
  <2>4. Thorough(q)'
    BY <1>0, <1>1, <2>1, <2>2, SameFiles, StillAccounted DEF Thorough
  <2>5. d.pkg # None /\ d.todo[d.pkg] # None
    BY <1>a, <2>2, Constants
  <2> QED
    BY <1>0, <2>1, <2>2, <2>3, <2>4, <2>5, QuietKeeps, PassGoesOn DEF PassSound
<1> QED
  BY <1>2, <1>3

LEMMA DisplaceSound ==
    ASSUME PackagesInv, NEW q \in Pass, Displace(q)
    PROVE  PackagesInv'
<1>a. PICK p \in Package, v \in Version : p = pass[q].pkg /\ v = pass[q].todo[p]
  BY InHand DEF Displace
<1>0. /\ pass[q].pc = "swap" /\ Quiet(q)
      /\ pass[q] \in PassState /\ pass \in [Pass -> PassState] /\ ProvisioningTypeOK /\ PassSound(q)
      /\ home \in [Plain -> Version \cup {None, Legacy}] /\ aside \subseteq Plain
      /\ UNCHANGED <<versions, current, torn>>
  BY <1>a, InHand DEF Displace, runtime, ProvisioningTypeOK
<1>1. UNCHANGED <<catalog, delivered>>
  BY <1>0, QuietKeeps
<1>b. p \in Plain
  BY <1>a, <1>0 DEF PassSound, Placed
<1>2. CASE home[p] = None
  <2>1. pass' = [pass EXCEPT ![q] = Done(q, p)] /\ UNCHANGED <<home, aside>>
    BY <1>a, <1>0, <1>2 DEF Displace, plain
  <2>2. /\ Done(q, p) \in PassState /\ pass[q].pc \notin {"idle", "asked"}
        /\ Done(q, p).pc = "next" /\ Done(q, p).ws = pass[q].ws /\ Done(q, p).gone = pass[q].gone
        /\ Done(q, p).todo = [pass[q].todo EXCEPT ![p] = None]
        /\ Done(q, p).alone => pass[q].alone
    BY <1>0, MoreFields
  <2>3. \A c \in Offer : ~(Done(q, p).alone /\ Thorough(q) /\ c = catalog[pass[q].ws])
    BY <1>a, <1>0, <1>2, <2>2, Constants DEF Thorough
  <2>4. \A c \in Offer : Done(q, p).alone /\ Thorough(q) /\ c = catalog[pass[q].ws] /\ Accounted(pass[q], c) =>
          /\ c[p] # None => Placement(p, c)'
          /\ c[p] = None => (Marked(p)' => Marked(p))
          /\ \A x \in Package \ {p} :
               (Placement(x, c) => Placement(x, c)') /\ (Marked(x)' => Marked(x))
    BY <2>3
  <2> QED
    BY <1>0, <2>1, <2>2, <2>4, QuietKeeps, PassIsDone
<1>3. CASE home[p] # None
  <2> DEFINE d == [pass[q] EXCEPT !.pc = "displaced",
                                  !.prev = IF pass[q].prev = Legacy THEN Legacy ELSE home[p]]
  <2>1. /\ pass' = [pass EXCEPT ![q] = d] /\ pass'[q] = d
        /\ home' = [home EXCEPT ![p] = None] /\ aside' \in {aside, aside \cup {p}}
    BY <1>a, <1>0, <1>3 DEF Displace
  <2>2. /\ d \in PassState /\ d.pc = "displaced" /\ d.pkg = p /\ d.todo = pass[q].todo
        /\ d.ws = pass[q].ws /\ d.alone = pass[q].alone /\ d.gone = pass[q].gone
    BY <1>a, <1>0, <1>b DEF PassState
  <2> HIDE DEF d
  <2>3. Placed(q)' /\ Wary(q)' /\ Linked(q)'
    BY <1>0, <1>b, <2>1, <2>2 DEF PassSound, Placed, Under, Wary, Linked
  <2>4. /\ home' \in [Plain -> Version \cup {None, Legacy}] /\ aside' \subseteq Plain
        /\ \A x \in Plain : home'[x] = Legacy => home[x] = Legacy
        /\ home'[p] = None /\ \A x \in Plain \ {p} : home'[x] = home[x]
    BY <1>0, <1>b, <2>1, Constants
  <2>5. \A c \in Offer, x \in Package : c = catalog[pass[q].ws] /\ Thorough(q) /\ pass[q].alone =>
          /\ c[x] # None /\ pass[q].todo[x] = None /\ Placement(x, c) => Placement(x, c)'
          /\ c[x] = None => (Marked(x)' => Marked(x))
    <3> SUFFICES ASSUME NEW c \in Offer, NEW x \in Package
                 PROVE  /\ pass[q].todo[x] = None /\ Placement(x, c) => Placement(x, c)'
                        /\ Marked(x)' => Marked(x)
      OBVIOUS
    <3>1. v # None
      BY Constants
    <3> QED
      BY <1>a, <1>0, <2>4, <3>1, Constants DEF Placement, MarkerMatches, Marked
  <2>6. Thorough(q)'
    BY <1>0, <1>1, <2>1, <2>2, <2>4, <2>5, StillAccounted DEF Thorough
  <2>7. d.pkg # None /\ d.todo[d.pkg] # None
    BY <1>a, <2>2, Constants
  <2> QED
    BY <1>0, <2>1, <2>2, <2>3, <2>4, <2>6, <2>7, QuietKeeps, PassGoesOn DEF PassSound
<1> QED
  BY <1>2, <1>3
LEMMA MoveInFailsSound ==
    ASSUME PackagesInv, NEW q \in Pass, MoveInFails(q)
    PROVE  PackagesInv'
<1>a. PICK p \in Package : p = pass[q].pkg
  BY InHand DEF MoveInFails
<1>0. /\ pass[q].pc = "displaced" /\ Event
      /\ pass[q] \in PassState /\ home \in [Plain -> Version \cup {None, Legacy}]
      /\ home' = [home EXCEPT ![p] = IF pass[q].prev = Legacy THEN None ELSE pass[q].prev]
      /\ pass' = [pass EXCEPT ![q] = [Done(q, p) EXCEPT !.alone = FALSE]]
      /\ UNCHANGED <<server, bound, inflight, proof, daemon, pending, overlapped>>
      /\ UNCHANGED <<aside, versions, current, torn>>
  BY <1>a, InHand DEF MoveInFails, runtime, env
<1>1. /\ home' \in [Plain -> Version \cup {None, Legacy}]
      /\ \A x \in Plain : home'[x] = Legacy => home[x] = Legacy
  BY <1>0, Constants DEF PassState
<1>2. pass[q].pc \notin {"idle", "asked", "rm"}
  BY <1>0
<1> QED
  BY <1>0, <1>1, <1>2, EventCounted, PassGivesUp

LEMMA MoveInSound ==
    ASSUME PackagesInv, NEW q \in Pass, MoveIn(q)
    PROVE  PackagesInv'
<1>a. PICK p \in Package, v \in Version : p = pass[q].pkg /\ v = pass[q].todo[p]
  BY InHand DEF MoveIn
<1>0. /\ pass[q].pc = "displaced" /\ Quiet(q) /\ ProvisioningTypeOK /\ PassSound(q)
      /\ home \in [Plain -> Version \cup {None, Legacy}]
      /\ UNCHANGED <<aside, versions, current, torn>>
  BY <1>a, InHand DEF MoveIn, runtime
<1>1. UNCHANGED <<catalog, delivered, daemon>>
  BY <1>0, QuietKeeps
<1>b. p \in Plain /\ p \notin Runtime
  BY <1>a, <1>0, Constants DEF PassSound, Placed
<1>2. CASE home[p] = None
  <2> DEFINE d == [Done(q, p) EXCEPT !.changed = TRUE]
  <2>1. home' = [home EXCEPT ![p] = v] /\ pass' = [pass EXCEPT ![q] = d]
    BY <1>a, <1>b, <1>2 DEF MoveIn, Installed
  <2>2. /\ d \in PassState /\ d.pc = "next" /\ d.ws = pass[q].ws /\ d.gone = pass[q].gone
        /\ d.todo = [pass[q].todo EXCEPT ![p] = None] /\ (d.alone => pass[q].alone)
        /\ pass[q].pc \notin {"idle", "asked"}
    BY <1>0, MoreFields
  <2>3. /\ home' \in [Plain -> Version \cup {None, Legacy}]
        /\ \A x \in Plain : home'[x] = Legacy => home[x] = Legacy
    BY <1>0, <2>1, Constants
  <2>4. \A c \in Offer : c = catalog[pass[q].ws] /\ Accounted(pass[q], c) =>
          /\ c[p] # None => Placement(p, c)'
          /\ c[p] = None => (Marked(p)' => Marked(p))
          /\ \A x \in Package \ {p} :
               (Placement(x, c) => Placement(x, c)') /\ (Marked(x)' => Marked(x))
    <3> SUFFICES ASSUME NEW c \in Offer, Accounted(pass[q], c)
                 PROVE  /\ c[p] # None => Placement(p, c)'
                        /\ c[p] = None => (Marked(p)' => Marked(p))
                        /\ \A x \in Package \ {p} :
                             (Placement(x, c) => Placement(x, c)') /\ (Marked(x)' => Marked(x))
      OBVIOUS
    <3>1. c[p] = v /\ v # None
      BY <1>a, Constants DEF Accounted
    <3>2. Placement(p, c)'
      BY <1>0, <1>b, <2>1, <3>1 DEF Placement, MarkerMatches
    <3>3. ASSUME NEW x \in Package \ {p}
          PROVE  (Placement(x, c) => Placement(x, c)') /\ (Marked(x)' => Marked(x))
      BY <1>0, <2>1 DEF Placement, MarkerMatches, Marked
    <3> QED
      BY <3>1, <3>2, <3>3
  <2> HIDE DEF d
  <2> QED
    BY <1>0, <2>1, <2>2, <2>3, <2>4, QuietKeeps, PassIsDone
<1>3. CASE home[p] # None
  <2>1. pass' = [pass EXCEPT ![q] = Done(q, p)] /\ home' = home
    BY <1>a, <1>3 DEF MoveIn
  <2>2. /\ Done(q, p) \in PassState /\ pass[q].pc \notin {"idle", "asked"}
        /\ Done(q, p).pc = "next" /\ Done(q, p).ws = pass[q].ws /\ Done(q, p).gone = pass[q].gone
        /\ Done(q, p).todo = [pass[q].todo EXCEPT ![p] = None]
        /\ Done(q, p).alone => pass[q].alone
    BY <1>0, MoreFields
  <2>3. \A c \in Offer : ~(Done(q, p).alone /\ Thorough(q) /\ c = catalog[pass[q].ws])
    BY <1>a, <1>0, <1>3, <2>2, Constants DEF Thorough
  <2>4. \A c \in Offer : Done(q, p).alone /\ Thorough(q) /\ c = catalog[pass[q].ws] /\ Accounted(pass[q], c) =>
          /\ c[p] # None => Placement(p, c)'
          /\ c[p] = None => (Marked(p)' => Marked(p))
          /\ \A x \in Package \ {p} :
               (Placement(x, c) => Placement(x, c)') /\ (Marked(x)' => Marked(x))
    BY <2>3
  <2> QED
    BY <1>0, <2>1, <2>2, <2>4, QuietKeeps, PassIsDone
<1> QED
  BY <1>2, <1>3

-----------------------------------------------------------------------------
(* switchRuntimeCurrentAndPrune.                                             *)

LEMMA SwitchCurrentSound ==
    ASSUME PackagesInv, NEW q \in Pass, SwitchCurrent(q)
    PROVE  PackagesInv'
<1>a. PICK p \in Package, v \in Version : p = pass[q].pkg /\ v = pass[q].todo[p]
  BY InHand DEF SwitchCurrent
<1> DEFINE d == [pass[q] EXCEPT !.pc = "prune", !.prev = current[p]]
<1>0. /\ pass[q].pc = "switch" /\ ProvisioningTypeOK /\ PassSound(q) /\ Under(q)
      /\ pass[q] \in PassState /\ pass \in [Pass -> PassState]
      /\ current \in [Runtime -> Version \cup {None}] /\ versions \in [Runtime -> SUBSET Version]
      /\ UNCHANGED <<server, bound, inflight, proof, pending, overlapped>>
      /\ UNCHANGED <<home, aside, versions, catalog, delivered, events>>
      /\ torn' = torn \ {p} /\ torn' \subseteq Runtime
  BY <1>a, InHand DEF SwitchCurrent, plain, server, ProvisioningTypeOK
<1>b. p \in Runtime /\ p \notin Plain
  BY <1>a, <1>0, Constants DEF PassSound, Placed
<1>1. /\ current' = [current EXCEPT ![p] = v] /\ pass' = [pass EXCEPT ![q] = d] /\ pass'[q] = d
      /\ daemon' = [daemon EXCEPT !.switched = IF @ = 2 THEN 2 ELSE @ + 1]
  BY <1>a, <1>0 DEF SwitchCurrent
<1>2. /\ d \in PassState /\ d.pc = "prune" /\ d.pkg = p /\ d.todo = pass[q].todo /\ d.prev = current[p]
      /\ d.ws = pass[q].ws /\ d.alone = pass[q].alone /\ d.gone = pass[q].gone
  BY <1>a, <1>b, <1>0 DEF PassState
<1> HIDE DEF d
<1>3. /\ daemon' \in [busy : BOOLEAN, uses : [Runtime -> Version \cup {None}], switched : 0..2]
      /\ daemon'.uses = daemon.uses /\ daemon'.switched # 0
      /\ daemon'.switched < 2 => daemon.switched = 0
  BY <1>0, <1>1 DEF ProvisioningTypeOK
<1>4. /\ current' \in [Runtime -> Version \cup {None}]
      /\ current'[p] = v /\ \A x \in Runtime \ {p} : current'[x] = current[x]
      /\ home' \in [Plain -> Version \cup {None, Legacy}] /\ aside' \subseteq Plain
      /\ \A x \in Plain : home'[x] = Legacy => home[x] = Legacy
      /\ versions' \in [Runtime -> SUBSET Version] /\ events' \in 0..MaxEvents
  BY <1>0, <1>1, <1>b DEF ProvisioningTypeOK
<1>5. Undisputed(q) => v \in versions[p]
  BY <1>a, <1>0 DEF PassSound, Linked
<1>6. FreshDaemon' /\ LinksLeft(q)
  BY <1>0, <1>3, <1>4, <1>5 DEF PackagesInv, FreshDaemon, LinksLeft, Dangling, Undisputed
<1>7. Placed(q)' /\ Wary(q)'
  BY <1>0, <1>b, <1>1, <1>2 DEF PassSound, Placed, Under, Wary
<1>8. Linked(q)'
  <2>1. ~overlapped /\ daemon'.switched < 2 => daemon.uses[p] \in {None, current[p]}
    BY <1>b, <1>3 DEF PackagesInv, FreshDaemon, Resolved
  <2>2. Undisputed(q)' => Undisputed(q)
    BY <1>0, <1>1, <1>2 DEF Undisputed
  <2> QED
    BY <1>a, <1>0, <1>1, <1>2, <1>3, <1>4, <1>5, <2>1, <2>2 DEF Linked
<1>9. \A c \in Offer, x \in Package :
        /\ pass[q].todo[x] = None /\ Placement(x, c) => Placement(x, c)'
        /\ Marked(x)' => Marked(x)
  BY <1>a, <1>0, <1>4, Constants DEF Placement, MarkerMatches, Marked
<1>10. Thorough(q)'
  BY <1>0, <1>1, <1>2, <1>9, StillAccounted DEF Thorough
<1>11. PassSound(q)' /\ d.pkg # None /\ d.todo[d.pkg] # None
  BY <1>a, <1>2, <1>7, <1>8, <1>10, Constants DEF PassSound
<1> QED
  BY <1>0, <1>1, <1>2, <1>3, <1>4, <1>6, <1>11, PassGoesOn

LEMMA PruneSound ==
    ASSUME PackagesInv, NEW q \in Pass, Prune(q)
    PROVE  PackagesInv'
<1>a. PICK p \in Package, v \in Version : p = pass[q].pkg /\ v = pass[q].todo[p]
  BY InHand DEF Prune
<1>0. /\ pass[q].pc = "prune" /\ Quiet(q) /\ ProvisioningTypeOK /\ PassSound(q)
      /\ versions \in [Runtime -> SUBSET Version]
      /\ versions' = [versions EXCEPT ![p] = @ \cap {v, pass[q].prev}]
      /\ pass' = [pass EXCEPT ![q] = Done(q, p)]
      /\ UNCHANGED <<home, aside, current, torn>>
  BY <1>a, InHand DEF Prune, plain
<1>b. p \in Runtime /\ p \notin Plain
  BY <1>a, <1>0, Constants DEF PassSound, Placed
<1>1. UNCHANGED <<catalog, delivered, daemon, overlapped>>
  BY <1>0, QuietKeeps
<1>2. /\ versions' \in [Runtime -> SUBSET Version]
      /\ \A x \in Runtime \ {p} : versions'[x] = versions[x]
      /\ versions'[p] = versions[p] \cap {v, pass[q].prev}
  BY <1>0, <1>b
<1>3. Undisputed(q) => v \in versions'[p] /\ current[p] = v
  BY <1>a, <1>0, <1>2 DEF PassSound, Linked
<1>4. LinksLeft(q) /\ FreshDaemon'
  BY <1>0, <1>1, <1>2, <1>3
     DEF PackagesInv, LinksLeft, Dangling, FreshDaemon, Resolved, Undisputed
<1>5. /\ Done(q, p) \in PassState /\ pass[q].pc \notin {"idle", "asked"}
      /\ Done(q, p).pc = "next" /\ Done(q, p).ws = pass[q].ws /\ Done(q, p).gone = pass[q].gone
      /\ Done(q, p).todo = [pass[q].todo EXCEPT ![p] = None]
      /\ Done(q, p).alone => pass[q].alone
  BY <1>0, MoreFields
<1>6. \A c \in Offer : Done(q, p).alone /\ Thorough(q) /\ c = catalog[pass[q].ws] /\ Accounted(pass[q], c) =>
        /\ c[p] # None => Placement(p, c)'
        /\ c[p] = None => (Marked(p)' => Marked(p))
        /\ \A x \in Package \ {p} :
             (Placement(x, c) => Placement(x, c)') /\ (Marked(x)' => Marked(x))
  <2> SUFFICES ASSUME NEW c \in Offer, Done(q, p).alone, Accounted(pass[q], c)
               PROVE  /\ Placement(p, c)' /\ c[p] # None
                      /\ \A x \in Package \ {p} :
                           (Placement(x, c) => Placement(x, c)') /\ (Marked(x)' => Marked(x))
    OBVIOUS
  <2>1. c[p] = v /\ v # None
    BY <1>a, Constants DEF Accounted
  <2>2. Placement(p, c)'
    BY <1>0, <1>b, <1>3, <1>5, <2>1 DEF Placement, MarkerMatches, Undisputed
  <2>3. ASSUME NEW x \in Package \ {p}
        PROVE  (Placement(x, c) => Placement(x, c)') /\ (Marked(x)' => Marked(x))
    BY <1>0, <1>2, Constants DEF Placement, MarkerMatches, Marked
  <2> QED
    BY <2>1, <2>2, <2>3
<1> QED
  BY <1>0, <1>2, <1>4, <1>5, <1>6, QuietKeeps, PassIsDone

-----------------------------------------------------------------------------
(* removeOneRevokedPackage.                                                  *)

(* A lemma on the memory of the strikes.                                     *)
LEMMA StrikesTyped ==
    ASSUME ProvisioningTypeOK
    PROVE  /\ 0 \in 0..Confirmations /\ FALSE \in BOOLEAN
           /\ \A u \in Pass : Strike(u) => strikes' \in 0..Confirmations /\ aged' \in BOOLEAN
<1>1. Confirmations \in Nat
  BY Constants
<1>2. strikes \in 0..Confirmations
  BY DEF ProvisioningTypeOK
<1>3. ASSUME NEW u \in Pass, Strike(u) PROVE strikes' \in 0..Confirmations
  BY <1>1, <1>2, <1>3 DEF Strike
<1>4. ASSUME NEW u \in Pass, Strike(u) PROVE aged' \in BOOLEAN
  BY <1>4 DEF ProvisioningTypeOK, Strike
<1> QED
  BY <1>1, <1>3, <1>4

LEMMA SettledFields ==
    ASSUME ProvisioningTypeOK, NEW q \in Pass, NEW p \in Package,
           NEW d \in {Settled(q, p), [Settled(q, p) EXCEPT !.alone = FALSE]}
    PROVE  /\ d \in PassState /\ d.pc = "next" /\ d.ws = pass[q].ws /\ d.gone = pass[q].gone \ {p}
           /\ d.todo = pass[q].todo /\ (d.alone => pass[q].alone)
<1>1. Settled(q, p) \in PassState
  BY RecordsTyped
<1>2. /\ d \in PassState /\ d.pc = Settled(q, p).pc /\ d.ws = Settled(q, p).ws
      /\ d.gone = Settled(q, p).gone /\ d.todo = Settled(q, p).todo
      /\ d.alone => Settled(q, p).alone
  BY <1>1 DEF PassState
<1> QED
  BY <1>2, Fields

(* A step that ends the removal of package p.                                *)
LEMMA PassSettles ==
    ASSUME PackagesInv, NEW q \in Pass, NEW p \in Package,
           pass[q].pc \notin {"idle", "asked"}, NEW d \in PassState,
           pass' = [pass EXCEPT ![q] = d], d.pc = "next", d.ws = pass[q].ws,
           d.gone = pass[q].gone \ {p}, d.todo = pass[q].todo, d.alone => pass[q].alone,
           UNCHANGED <<server, bound, inflight, proof, pending, overlapped>>,
           events' \in 0..MaxEvents,
           home' \in [Plain -> Version \cup {None, Legacy}], aside' \subseteq Plain,
           \A x \in Plain : home'[x] = Legacy => home[x] = Legacy,
           versions' \in [Runtime -> SUBSET Version],
           current' \in [Runtime -> Version \cup {None}], torn' \subseteq Runtime,
           daemon' \in [busy : BOOLEAN, uses : [Runtime -> Version \cup {None}], switched : 0..2],
           FreshDaemon', LinksLeft(q),
           d.alone /\ Thorough(q) /\ pass[q].alone /\ catalog[pass[q].ws] # Denied => ~Marked(p)',
           pass[q].pc # "next" \/ p \in pass[q].gone,
           pass[q].pc \in {"next", "remove", "list", "rm"}, pass[q].pc # "next" => p = pass[q].pkg,
           \A x \in Package \ {p} : \A c :
             (Placement(x, c) => Placement(x, c)') /\ (Marked(x)' => Marked(x))
    PROVE  PackagesInv'
<1>0. /\ pass[q] \in PassState /\ pass'[q] = d /\ Under(q) /\ PassSound(q) /\ ProvisioningTypeOK
      /\ pass[q].ws \in Workspace /\ UNCHANGED <<catalog, delivered>>
  BY DEF PackagesInv, ProvisioningTypeOK, Under, PassSound, Placed, server
<1>1. ASSUME d.alone, catalog[d.ws] # Denied
      PROVE  Accounted(pass[q], catalog[pass[q].ws])'
  <2>1. PICK c \in Offer : c = catalog[pass[q].ws]
    BY <1>0, <1>1 DEF ProvisioningTypeOK
  <2>2. Accounted(pass[q], c) /\ p \in pass[q].gone /\ ~Marked(p)'
    BY <1>0, <1>1, <2>1 DEF PassSound, Thorough
  <2>3. c[p] = None
    BY <2>2 DEF Accounted
  <2>4. Accounted(pass[q], c)'
    BY <1>0, <2>2, <2>3 DEF Accounted
  <2> QED
    BY <1>0, <2>1, <2>4 DEF Accounted
<1>2. PassSound(q)'
  BY <1>0, <1>1, NextSound
<1> QED
  BY <1>0, <1>2, PassGoesOn

LEMMA AskRemovalSound ==
    ASSUME PackagesInv, NEW q \in Pass, NEW p \in Package, AskRemoval(q, p)
    PROVE  PackagesInv'
<1>0. /\ pass[q].pc = "next" /\ p \in pass[q].gone /\ Quiet(q) /\ Under(q)
      /\ pass[q] \in PassState /\ pass \in [Pass -> PassState] /\ ProvisioningTypeOK /\ PassSound(q)
      /\ pass[q].ws \in Workspace
      /\ UNCHANGED <<home, aside, versions, current, torn>>
  BY DEF PackagesInv, ProvisioningTypeOK, AskRemoval, Under, PassSound, Placed, plain, runtime
<1>1. UNCHANGED <<catalog, delivered>>
  BY <1>0, QuietKeeps
<1>2. CASE Present(p) /\ ~daemon.busy
  <2>a. PICK pc \in {"remove", "list"} : pc = IF p \in Plain THEN "remove" ELSE "list"
    OBVIOUS
  <2> DEFINE d == [pass[q] EXCEPT !.pc = pc, !.pkg = p, !.failed = FALSE]
  <2>1. pass' = [pass EXCEPT ![q] = d] /\ pass'[q] = d
    BY <1>0, <1>2, <2>a DEF AskRemoval
  <2>2. /\ d \in PassState /\ d.pc = pc /\ d.pkg = p /\ d.todo = pass[q].todo /\ d.failed = FALSE
        /\ d.ws = pass[q].ws /\ d.alone = pass[q].alone /\ d.gone = pass[q].gone
    BY <1>0 DEF PassState
  <2> HIDE DEF d
  <2>3. Placed(q)' /\ Wary(q)' /\ Linked(q)'
    BY <1>0, <1>2, <2>a, <2>1, <2>2, Constants DEF Placed, Under, Wary, Linked, Marked, Present
  <2>4. Thorough(q)'
    BY <1>0, <1>1, <2>1, <2>2, SameFiles, StillAccounted DEF Thorough
  <2> QED
    BY <1>0, <2>1, <2>2, <2>3, <2>4, QuietKeeps, PassGoesOn DEF PassSound
<1>3. CASE ~(Present(p) /\ ~daemon.busy)
  <2> DEFINE d == [Settled(q, p) EXCEPT !.alone = @ /\ ~Marked(p)]
  <2>1. pass' = [pass EXCEPT ![q] = d] /\ pass'[q] = d
    BY <1>0, <1>3 DEF AskRemoval
  <2>2. /\ d \in PassState /\ d.pc = "next" /\ d.ws = pass[q].ws /\ d.gone = pass[q].gone \ {p}
        /\ d.todo = pass[q].todo /\ (d.alone => pass[q].alone)
        /\ d.alone => ~Marked(p)
    <3>1. Settled(q, p) \in PassState /\ Settled(q, p).alone = pass[q].alone
      BY <1>0, RecordsTyped, Fields
    <3>2. CASE Marked(p)
      <4>1. d = [Settled(q, p) EXCEPT !.alone = FALSE] /\ ~d.alone
        BY <3>1, <3>2 DEF PassState
      <4> HIDE DEF d
      <4> QED
        BY <1>0, <4>1, SettledFields
    <3>3. CASE ~Marked(p)
      <4>1. d = Settled(q, p)
        BY <3>1, <3>3 DEF PassState
      <4> HIDE DEF d
      <4> QED
        BY <1>0, <3>3, <4>1, SettledFields
    <3> QED
      BY <3>2, <3>3
  <2> HIDE DEF d
  <2>3. ASSUME pass'[q].alone PROVE ~Marked(p)'
    BY <1>0, <2>1, <2>2, <2>3, SameFiles
  <2>4. \A x \in Package \ {p} : \A c : (Placement(x, c) => Placement(x, c)') /\ (Marked(x)' => Marked(x))
    BY <1>0, SameFiles
  <2> QED
    BY <1>0, <2>1, <2>2, <2>3, <2>4, QuietKeeps, PassSettles
<1> QED
  BY <1>2, <1>3

(* What a pass has in hand when it removes.                                  *)
LEMMA InRemoval ==
    ASSUME PackagesInv, NEW q \in Pass, pass[q].pc \in {"remove", "list", "rm"}
    PROVE  /\ pass[q].pkg \in Package /\ pass[q].ws \in Workspace
           /\ pass[q].pc = "remove" => pass[q].pkg \in Plain /\ pass[q].pkg \notin Runtime
           /\ pass[q].pc \in {"list", "rm"} => pass[q].pkg \in Runtime /\ pass[q].pkg \notin Plain
           /\ pass[q] \in PassState /\ pass \in [Pass -> PassState]
           /\ ProvisioningTypeOK /\ PassSound(q) /\ Under(q)
           /\ home \in [Plain -> Version \cup {None, Legacy}]
           /\ versions \in [Runtime -> SUBSET Version]
           /\ current \in [Runtime -> Version \cup {None}] /\ torn \subseteq Runtime
<1>1. PassSound(q) /\ Under(q) /\ ProvisioningTypeOK
  BY DEF PackagesInv, Under
<1> QED
  BY <1>1, Constants DEF PassSound, Placed, ProvisioningTypeOK

LEMMA RemoveSound ==
    ASSUME PackagesInv, NEW q \in Pass, Remove(q)
    PROVE  PackagesInv'
<1>a. PICK p \in Package : p = pass[q].pkg
  BY InRemoval DEF Remove
<1>0. /\ pass[q].pc = "remove" /\ Quiet(q) /\ ProvisioningTypeOK /\ PassSound(q) /\ p \in Plain
      /\ home \in [Plain -> Version \cup {None, Legacy}]
      /\ pass' = [pass EXCEPT ![q] = Settled(q, p)]
      /\ home' = IF pass[q].failed THEN home ELSE [home EXCEPT ![p] = None]
      /\ UNCHANGED <<aside, versions, current, torn>>
  BY <1>a, InRemoval DEF Remove, runtime
<1>1. UNCHANGED <<catalog, delivered>>
  BY <1>0, QuietKeeps
<1>2. /\ Settled(q, p) \in PassState /\ Settled(q, p).pc = "next" /\ Settled(q, p).ws = pass[q].ws
      /\ Settled(q, p).gone = pass[q].gone \ {p} /\ Settled(q, p).todo = pass[q].todo
      /\ Settled(q, p).alone => pass[q].alone
  BY <1>0, SettledFields
<1>3. /\ home' \in [Plain -> Version \cup {None, Legacy}]
      /\ \A x \in Plain : home'[x] = Legacy => home[x] = Legacy
      /\ \A x \in Plain \ {p} : home'[x] = home[x]
      /\ ~pass[q].failed => home'[p] = None
  BY <1>0, Constants
<1>4. \A x \in Package \ {p} : \A c : (Placement(x, c) => Placement(x, c)') /\ (Marked(x)' => Marked(x))
  BY <1>0, <1>3, Constants DEF Placement, MarkerMatches, Marked
<1>5. Thorough(q) /\ pass[q].alone /\ catalog[pass[q].ws] # Denied => ~Marked(p)'
  BY <1>0, <1>3, Constants DEF Thorough, Marked
<1>6. pass'[q] = Settled(q, p) /\ pass[q].pc \notin {"idle", "asked"}
  BY <1>0 DEF ProvisioningTypeOK
<1> QED
  BY <1>a, <1>0, <1>1, <1>2, <1>3, <1>4, <1>5, <1>6, QuietKeeps, PassSettles

(* A pass that has met a failure is disturbed.                               *)
LEMMA FailedFields ==
    ASSUME NEW q \in Pass, pass[q] \in PassState,
           NEW d, \E l \in SUBSET Version :
                    d = [pass[q] EXCEPT !.left = l, !.failed = TRUE, !.alone = FALSE]
    PROVE  /\ d \in PassState /\ d.pc = pass[q].pc /\ d.pkg = pass[q].pkg /\ d.todo = pass[q].todo
           /\ d.ws = pass[q].ws /\ d.gone = pass[q].gone /\ d.prev = pass[q].prev /\ ~d.alone
BY DEF PassState

LEMMA FailureSound ==
    ASSUME PackagesInv, NEW q \in Pass, pass[q].pc \in {"remove", "rm"},
           NEW l \in SUBSET Version,
           pass' = [pass EXCEPT ![q] = [pass[q] EXCEPT !.left = l, !.failed = TRUE, !.alone = FALSE]],
           Event, UNCHANGED <<server, bound, plain, runtime, inflight, proof, env, overlapped>>
    PROVE  PackagesInv'
<1> DEFINE d == [pass[q] EXCEPT !.left = l, !.failed = TRUE, !.alone = FALSE]
<1>0. /\ pass[q] \in PassState /\ pass \in [Pass -> PassState] /\ ProvisioningTypeOK
      /\ PassSound(q) /\ Under(q) /\ pass[q].pkg \in Package
      /\ pass[q].pc = "remove" => pass[q].pkg \in Plain
      /\ UNCHANGED <<home, aside, versions, current, torn, daemon, pending>>
  BY InRemoval DEF plain, runtime, env
<1>1. /\ d \in PassState /\ d.pc = pass[q].pc /\ d.pkg = pass[q].pkg /\ d.todo = pass[q].todo
      /\ d.ws = pass[q].ws /\ d.gone = pass[q].gone /\ ~d.alone
  BY <1>0, FailedFields
<1>2. pass'[q] = d
  BY <1>0
<1> HIDE DEF d
<1>3. PassSound(q)'
  BY <1>0, <1>1, <1>2 DEF PassSound, Placed, Wary, Linked, Thorough, Under
<1>4. LinksLeft(q) /\ FreshDaemon'
  BY <1>0, <1>1, <1>2
     DEF PackagesInv, CurrentResolves, LinksLeft, Dangling, Removing, FreshDaemon, Resolved
<1>5. /\ home' \in [Plain -> Version \cup {None, Legacy}] /\ aside' \subseteq Plain
      /\ \A x \in Plain : home'[x] = Legacy => home[x] = Legacy
      /\ versions' \in [Runtime -> SUBSET Version]
      /\ current' \in [Runtime -> Version \cup {None}] /\ torn' \subseteq Runtime
      /\ daemon' \in [busy : BOOLEAN, uses : [Runtime -> Version \cup {None}], switched : 0..2]
  BY <1>0 DEF ProvisioningTypeOK
<1>6. events' \in 0..MaxEvents
  BY EventCounted
<1>7. pass' = [pass EXCEPT ![q] = d] /\ d.pc \in {"remove", "rm"}
  BY <1>1 DEF d
<1> QED
  BY <1>0, <1>1, <1>3, <1>4, <1>5, <1>6, <1>7, PassGoesOn

LEMMA RemoveFailsSound ==
    ASSUME PackagesInv, NEW q \in Pass, RemoveFails(q)
    PROVE  PackagesInv'
<1>0. pass[q] \in PassState /\ pass[q].pc = "remove"
  BY InRemoval DEF RemoveFails
<1>1. /\ pass[q].left \in SUBSET Version
      /\ [pass[q] EXCEPT !.failed = TRUE, !.alone = FALSE]
           = [pass[q] EXCEPT !.left = pass[q].left, !.failed = TRUE, !.alone = FALSE]
  BY <1>0 DEF PassState
<1>2. /\ Event /\ UNCHANGED <<server, bound, plain, runtime, inflight, proof, env, overlapped>>
      /\ pass' = [pass EXCEPT ![q] = [pass[q] EXCEPT !.failed = TRUE, !.alone = FALSE]]
  BY DEF RemoveFails, Stumbles
<1> QED
  BY <1>0, <1>1, <1>2, FailureSound

LEMMA RemoveVersionFailsSound ==
    ASSUME PackagesInv, NEW q \in Pass, NEW v \in Version, RemoveVersionFails(q, v)
    PROVE  PackagesInv'
<1>0. pass[q] \in PassState /\ pass[q].pc = "rm"
  BY InRemoval DEF RemoveVersionFails
<1>1. PICK l \in SUBSET Version : l = pass[q].left \ {v}
  BY <1>0 DEF PassState
<1>2. /\ Event /\ UNCHANGED <<server, bound, plain, runtime, inflight, proof, env, overlapped>>
      /\ pass' = [pass EXCEPT ![q] = [pass[q] EXCEPT !.left = l, !.failed = TRUE, !.alone = FALSE]]
  BY <1>1 DEF RemoveVersionFails
<1> QED
  BY <1>0, <1>1, <1>2, FailureSound

LEMMA ListVersionsSound ==
    ASSUME PackagesInv, NEW q \in Pass, ListVersions(q)
    PROVE  PackagesInv'
<1>a. PICK p \in Package : p = pass[q].pkg
  BY InRemoval DEF ListVersions
<1>0. /\ pass[q].pc = "list" /\ Quiet(q) /\ ProvisioningTypeOK /\ PassSound(q) /\ Under(q)
      /\ pass[q] \in PassState /\ pass \in [Pass -> PassState] /\ p \in Runtime /\ p \notin Plain
      /\ pass[q].ws \in Workspace /\ versions \in [Runtime -> SUBSET Version]
      /\ UNCHANGED <<home, aside, versions, current, torn>>
  BY <1>a, InRemoval DEF ListVersions, plain, runtime
<1>1. UNCHANGED <<catalog, delivered>>
  BY <1>0, QuietKeeps
<1>2. CASE versions[p] = {}
  <2>1. /\ pass' = [pass EXCEPT ![q] = Settled(q, p)] /\ pass'[q] = Settled(q, p)
        /\ pass[q].pc \notin {"idle", "asked"}
    BY <1>a, <1>0, <1>2 DEF ListVersions
  <2>2. ~Marked(p)'
    BY <1>0, <1>2 DEF Marked
  <2>3. \A x \in Package \ {p} : \A c : (Placement(x, c) => Placement(x, c)') /\ (Marked(x)' => Marked(x))
    BY <1>0, SameFiles
  <2>4. /\ Settled(q, p) \in PassState /\ Settled(q, p).pc = "next" /\ Settled(q, p).ws = pass[q].ws
        /\ Settled(q, p).gone = pass[q].gone \ {p} /\ Settled(q, p).todo = pass[q].todo
        /\ Settled(q, p).alone => pass[q].alone
    BY <1>0, SettledFields
  <2> QED
    BY <1>a, <1>0, <2>1, <2>2, <2>3, <2>4, QuietKeeps, PassSettles
<1>3. CASE versions[p] # {}
  <2> DEFINE d == [pass[q] EXCEPT !.pc = "rm", !.left = versions[p]]
  <2>1. pass' = [pass EXCEPT ![q] = d] /\ pass'[q] = d
    BY <1>a, <1>0, <1>3 DEF ListVersions
  <2>2. /\ d \in PassState /\ d.pc = "rm" /\ d.pkg = p /\ d.todo = pass[q].todo /\ d.left = versions[p]
        /\ d.ws = pass[q].ws /\ d.alone = pass[q].alone /\ d.gone = pass[q].gone
    BY <1>a, <1>0 DEF PassState
  <2> HIDE DEF d
  <2>3. Placed(q)' /\ Wary(q)' /\ Linked(q)'
    BY <1>0, <2>1, <2>2 DEF Placed, Under, Wary, Linked
  <2>a. pass[q].pc \notin {"idle", "asked"}
    BY <1>0
  <2>b. ASSUME pass[q].alone, catalog[pass[q].ws] # Denied
        PROVE  /\ p \in pass[q].gone /\ versions'[p] \subseteq d.left
               /\ Accounted(pass[q], catalog[pass[q].ws])'
    BY <1>a, <1>0, <1>1, <2>1, <2>2, <2>a, <2>b, SameFiles, StillAccounted DEF PassSound, Thorough
  <2>4. Thorough(q)'
    BY <1>1, <2>1, <2>2, <2>b DEF Thorough
  <2>5. PassSound(q)'
    BY <2>3, <2>4 DEF PassSound
  <2>6. /\ FreshDaemon' /\ LinksLeft(q) /\ torn' \subseteq Runtime
        /\ UNCHANGED <<server, bound, inflight, proof, pending, overlapped>>
        /\ events' \in 0..MaxEvents /\ aside' \subseteq Plain
        /\ home' \in [Plain -> Version \cup {None, Legacy}]
        /\ \A x \in Plain : home'[x] = Legacy => home[x] = Legacy
        /\ versions' \in [Runtime -> SUBSET Version] /\ current' \in [Runtime -> Version \cup {None}]
        /\ daemon' \in [busy : BOOLEAN, uses : [Runtime -> Version \cup {None}], switched : 0..2]
    BY <1>0, QuietKeeps
  <2> QED
    BY <1>0, <2>1, <2>2, <2>5, <2>6, PassGoesOn
<1> QED
  BY <1>2, <1>3

LEMMA RemoveVersionSound ==
    ASSUME PackagesInv, NEW q \in Pass, NEW v \in Version, RemoveVersion(q, v)
    PROVE  PackagesInv'
<1>a. PICK p \in Package : p = pass[q].pkg
  BY InRemoval DEF RemoveVersion
<1> DEFINE d == [pass[q] EXCEPT !.left = @ \ {v}]
<1>0. /\ pass[q].pc = "rm" /\ ProvisioningTypeOK /\ PassSound(q) /\ Under(q)
      /\ pass[q] \in PassState /\ pass \in [Pass -> PassState] /\ p \in Runtime /\ p \notin Plain
      /\ versions \in [Runtime -> SUBSET Version]
      /\ versions' = [versions EXCEPT ![p] = @ \ {v}]
      /\ daemon' = [daemon EXCEPT !.switched = 2]
      /\ pass' = [pass EXCEPT ![q] = d] /\ pass'[q] = d
      /\ UNCHANGED <<server, bound, inflight, proof, pending, overlapped>>
      /\ UNCHANGED <<home, aside, current, torn, catalog, delivered, events>>
  BY <1>a, InRemoval DEF RemoveVersion, plain, server
<1>1. /\ d \in PassState /\ d.pc = "rm" /\ d.pkg = p /\ d.todo = pass[q].todo
      /\ d.left = pass[q].left \ {v}
      /\ d.ws = pass[q].ws /\ d.alone = pass[q].alone /\ d.gone = pass[q].gone
  BY <1>a, <1>0 DEF PassState
<1> HIDE DEF d
<1>2. /\ versions' \in [Runtime -> SUBSET Version] /\ versions'[p] = versions[p] \ {v}
      /\ \A x \in Runtime \ {p} : versions'[x] = versions[x]
  BY <1>0
<1>3. /\ daemon' \in [busy : BOOLEAN, uses : [Runtime -> Version \cup {None}], switched : 0..2]
      /\ daemon'.switched = 2
  BY <1>0 DEF ProvisioningTypeOK
<1>4. FreshDaemon'
  BY <1>3 DEF FreshDaemon
<1>5. Removing(p)' /\ \A x \in Runtime : Removing(x) => Removing(x)'
  BY <1>a, <1>0, <1>1 DEF Removing
<1>6. LinksLeft(q)
  <2> SUFFICES ASSUME NEW x \in Runtime, ~overlapped, Dangling(x)', x # p
               PROVE  Removing(x)' \/ x \in torn'
    BY <1>5 DEF LinksLeft
  <2>1. Dangling(x)
    BY <1>0, <1>2 DEF Dangling
  <2> QED
    BY <1>0, <1>5, <2>1 DEF PackagesInv, CurrentResolves
<1>7. Placed(q)' /\ Wary(q)' /\ Linked(q)'
  BY <1>0, <1>1 DEF PassSound, Placed, Under, Wary, Linked
<1>8. \A c \in Offer, x \in Package :
        c = catalog[pass[q].ws] /\ Thorough(q) /\ pass[q].alone =>
          /\ c[x] # None /\ pass[q].todo[x] = None /\ Placement(x, c) => Placement(x, c)'
          /\ c[x] = None => (Marked(x)' => Marked(x))
  <2> SUFFICES ASSUME NEW c \in Offer, NEW x \in Package, c = catalog[pass[q].ws], Thorough(q),
                      pass[q].alone
               PROVE  /\ c[x] # None /\ Placement(x, c) => Placement(x, c)'
                      /\ Marked(x)' => Marked(x)
    OBVIOUS
  <2>1. c[p] = None
    BY <1>a, <1>0, Constants DEF Thorough, Accounted
  <2>2. CASE x = p
    BY <1>0, <1>2, <2>1, <2>2 DEF Marked
  <2>3. CASE x # p
    BY <1>0, <1>2, <2>3, Constants DEF Placement, MarkerMatches, Marked
  <2> QED
    BY <2>2, <2>3
<1>9. Thorough(q)'
  <2>1. pass[q].pc \notin {"idle", "asked"}
    BY <1>0
  <2>2. ASSUME pass[q].alone, catalog[pass[q].ws] # Denied
        PROVE  /\ p \in pass[q].gone /\ versions'[p] \subseteq d.left
               /\ Accounted(pass[q], catalog[pass[q].ws])'
    BY <1>a, <1>0, <1>1, <1>2, <1>8, <2>1, <2>2, StillAccounted DEF PassSound, Thorough
  <2> QED
    BY <1>0, <1>1, <2>2 DEF Thorough
<1>10. /\ home' \in [Plain -> Version \cup {None, Legacy}] /\ aside' \subseteq Plain
       /\ \A x \in Plain : home'[x] = Legacy => home[x] = Legacy
       /\ current' \in [Runtime -> Version \cup {None}] /\ torn' \subseteq Runtime
       /\ events' \in 0..MaxEvents
  BY <1>0 DEF ProvisioningTypeOK
<1>11. PassSound(q)'
  BY <1>7, <1>9 DEF PassSound
<1> QED
  BY <1>0, <1>1, <1>2, <1>3, <1>4, <1>6, <1>10, <1>11, PassGoesOn

(* Both ends of the removal of a runtime.                                    *)
LEMMA UnlinkSound ==
    ASSUME PackagesInv, NEW q \in Pass, Unlink(q) \/ UnlinkFails(q)
    PROVE  PackagesInv'
<1>a. PICK p \in Package : p = pass[q].pkg
  BY InRemoval DEF Unlink, UnlinkFails
<1>0. /\ pass[q].pc = "rm" /\ pass[q].left = {} /\ ProvisioningTypeOK /\ PassSound(q) /\ Under(q)
      /\ pass[q] \in PassState /\ pass \in [Pass -> PassState] /\ p \in Runtime /\ p \notin Plain
      /\ pass[q].ws \in Workspace
      /\ versions \in [Runtime -> SUBSET Version] /\ current \in [Runtime -> Version \cup {None}]
      /\ pass' = [pass EXCEPT ![q] = Settled(q, p)] /\ pass'[q] = Settled(q, p)
      /\ UNCHANGED <<server, bound, inflight, proof, pending, overlapped>>
      /\ UNCHANGED <<home, aside, versions, catalog, delivered, daemon>>
  BY <1>a, InRemoval DEF Unlink, UnlinkFails, Quiet, plain, server, env
<1>1. /\ \/ current' = [current EXCEPT ![p] = Resolved(p)] /\ torn' = torn \ {p}
         \/ current' = current /\ torn' = torn \cup {p}
      /\ events' \in 0..MaxEvents
  BY <1>a, EventCounted DEF Unlink, UnlinkFails, Quiet, PackagesInv, ProvisioningTypeOK
<1>2. /\ current' \in [Runtime -> Version \cup {None}] /\ torn' \subseteq Runtime
      /\ \A x \in Runtime \ {p} : current'[x] = current[x] /\ (x \in torn => x \in torn')
      /\ ~Dangling(p)' \/ p \in torn'
      /\ \A x \in Runtime : Resolved(x)' = Resolved(x)
  BY <1>0, <1>1, Constants DEF ProvisioningTypeOK, Resolved, Dangling
<1>3. FreshDaemon'
  BY <1>0, <1>2 DEF PackagesInv, FreshDaemon
<1>4. LinksLeft(q)
  <2> SUFFICES ASSUME NEW x \in Runtime, ~overlapped, Dangling(x)', x # p
               PROVE  x \in torn'
    BY <1>2 DEF LinksLeft
  <2>1. Dangling(x)
    BY <1>0, <1>2 DEF Dangling
  <2>2. ~Removing(x)
    <3> SUFFICES ASSUME NEW u \in Pass, pass[u].pc = "rm", pass[u].pkg = x PROVE FALSE
      BY DEF Removing
    <3>1. u = q
      BY <1>0 DEF PackagesInv, OnePass, Under, Undisputed
    <3> QED
      BY <1>a, <3>1
  <2> QED
    BY <1>2, <2>1, <2>2 DEF PackagesInv, CurrentResolves
<1>5. /\ Settled(q, p) \in PassState /\ Settled(q, p).pc = "next" /\ Settled(q, p).ws = pass[q].ws
      /\ Settled(q, p).gone = pass[q].gone \ {p} /\ Settled(q, p).todo = pass[q].todo
      /\ Settled(q, p).alone => pass[q].alone
  BY <1>0, SettledFields
<1>6. \A x \in Package \ {p} : \A c : (Placement(x, c) => Placement(x, c)') /\ (Marked(x)' => Marked(x))
  BY <1>0, <1>2, Constants DEF Placement, MarkerMatches, Marked
<1>7. Thorough(q) /\ pass[q].alone /\ catalog[pass[q].ws] # Denied => ~Marked(p)'
  BY <1>a, <1>0 DEF Thorough, Marked
<1>8. /\ home' \in [Plain -> Version \cup {None, Legacy}] /\ aside' \subseteq Plain
      /\ \A x \in Plain : home'[x] = Legacy => home[x] = Legacy
      /\ versions' \in [Runtime -> SUBSET Version]
      /\ daemon' \in [busy : BOOLEAN, uses : [Runtime -> Version \cup {None}], switched : 0..2]
      /\ pass[q].pc \notin {"idle", "asked"}
  BY <1>0 DEF ProvisioningTypeOK
<1> QED
  BY <1>a, <1>0, <1>1, <1>2, <1>3, <1>4, <1>5, <1>6, <1>7, <1>8, PassSettles

-----------------------------------------------------------------------------
(* The manifest, and the end of a pass.                                      *)

LEMMA ManifestServedSound ==
    ASSUME PackagesInv, NEW q \in Pass, ManifestServed(q)
    PROVE  PackagesInv'
<1>a. PICK w \in Workspace : w = pass[q].ws
  BY DEF PackagesInv, PassSound, Placed, ManifestServed, Under
<1>b. catalog[w] \in Offer
  BY <1>a DEF PackagesInv, ProvisioningTypeOK, ManifestServed
<1>c. PICK c \in Offer : c = catalog[w]
  BY <1>b
<1> DEFINE served == {p \in Package : c[p] # None}
           d == [pass[q] EXCEPT !.pc = "next", !.todo = c, !.gone = delivered[w] \ served]
<1>0. /\ pass[q].pc = "asked" /\ Under(q) /\ ProvisioningTypeOK
      /\ pass[q] \in PassState /\ pass \in [Pass -> PassState]
      /\ delivered \in [Workspace -> SUBSET Package]
      /\ delivered' = [delivered EXCEPT ![w] = @ \cup served]
      /\ pass' = [pass EXCEPT ![q] = d] /\ pass'[q] = d
      /\ UNCHANGED <<catalog, bound, home, aside, versions, current, torn>>
      /\ UNCHANGED <<inflight, daemon, pending, overlapped, events>>
      /\ strikes' = 0 /\ aged' = FALSE
  BY <1>a, <1>c DEF PackagesInv, ProvisioningTypeOK, ManifestServed, Under, ResetStrikes,
                    plain, runtime, env
<1>1. /\ d \in PassState /\ d.pc = "next" /\ d.todo = c /\ d.gone = delivered[w] \ served
      /\ d.ws = w /\ d.alone = pass[q].alone
  BY <1>a, <1>0, Constants DEF PassState
<1> HIDE DEF d
<1>2. /\ pass' \in [Pass -> PassState]
      /\ \A u \in Pass : pass'[u].pc \in {"fetched", "swap", "displaced", "switch", "prune"} =>
           pass'[u].pkg # None /\ pass'[u].todo[pass'[u].pkg] # None
      /\ OnePass'
      /\ \A u \in Pass \ {q} : PassSound(u)'
  BY <1>0, <1>1, OneMoves
<1>3. Accounted(pass[q], catalog[pass[q].ws])'
  <2>1. pass'[q].todo = c /\ pass'[q].gone = delivered[w] \ served /\ pass'[q].ws = w /\ catalog'[w] = c
    BY <1>c, <1>0, <1>1
  <2>2. delivered'[w] = delivered[w] \cup served /\ delivered[w] \subseteq Package
    BY <1>0
  <2> QED
    BY <2>1, <2>2 DEF Accounted
<1>4. PassSound(q)'
  BY <1>0, <1>1, <1>3, NextSound
<1>5. FreshDaemon' /\ LinksLeft(q)
  BY <1>0 DEF PackagesInv, FreshDaemon, Resolved, LinksLeft, Dangling
<1>d. CurrentResolves'
  BY <1>0, <1>5, LinksGood
<1>6. inflight' # None => Under(inflight)'
  BY <1>0, <1>1 DEF ProvisioningTypeOK, Under
<1>7. ProvisioningTypeOK'
  <2>1. delivered' \in [Workspace -> SUBSET Package]
    BY <1>0, <1>c, Constants
  <2>2. strikes' \in 0..Confirmations /\ aged' \in BOOLEAN
    BY <1>0, StrikesTyped
  <2> QED
    BY <1>0, <1>2, <1>6, <2>1, <2>2 DEF ProvisioningTypeOK
<1> QED
  BY <1>2, <1>4, <1>5, <1>d, <1>7 DEF PackagesInv

LEMMA FinishSound ==
    ASSUME PackagesInv, NEW q \in Pass, Under(q), Finish(q), pass[q].pc # "rm",
           UNCHANGED <<server, bound, plain, runtime, daemon, overlapped>>,
           events' \in 0..MaxEvents, strikes' \in 0..Confirmations, aged' \in BOOLEAN
    PROVE  PackagesInv'
<1>0. /\ ProvisioningTypeOK /\ pass \in [Pass -> PassState] /\ pass[q] \in PassState
      /\ pass' = [pass EXCEPT ![q] = Idle] /\ pass'[q] = Idle
      /\ pending' = (pending \/ pass[q].changed)
      /\ inflight' = IF inflight = q THEN None ELSE inflight
      /\ UNCHANGED <<catalog, delivered, home, aside, versions, current, torn>>
  BY DEF PackagesInv, ProvisioningTypeOK, Finish, server, plain, runtime
<1>1. Idle \in PassState /\ Idle.pc = "idle" /\ Idle.alone = FALSE
  BY Constants DEF Idle, PassState
<1>2. /\ pass' \in [Pass -> PassState]
      /\ \A u \in Pass : pass'[u].pc \in {"fetched", "swap", "displaced", "switch", "prune"} =>
           pass'[u].pkg # None /\ pass'[u].todo[pass'[u].pkg] # None
      /\ OnePass'
      /\ \A u \in Pass \ {q} : PassSound(u)'
  BY <1>0, <1>1, OneMoves
<1>3. PassSound(q)'
  BY <1>0, <1>1 DEF PassSound, Placed, Wary, Linked, Thorough, Under
<1>4. FreshDaemon' /\ CurrentResolves'
  <2>1. FreshDaemon' /\ LinksLeft(q)
    BY <1>0 DEF PackagesInv, FreshDaemon, Resolved, LinksLeft, Dangling
  <2> QED
    BY <1>0, <2>1, LinksGood
<1>5. inflight' \in Pass \cup {None} /\ (inflight' # None => Under(inflight)')
  BY <1>0 DEF ProvisioningTypeOK, Under
<1>6. pending' \in BOOLEAN
  BY <1>0 DEF ProvisioningTypeOK, PassState
<1>7. ProvisioningTypeOK'
  BY <1>0, <1>2, <1>5, <1>6 DEF ProvisioningTypeOK
<1> QED
  BY <1>2, <1>3, <1>4, <1>7 DEF PackagesInv

LEMMA ManifestFailsSound ==
    ASSUME PackagesInv, NEW q \in Pass, ManifestFails(q)
    PROVE  PackagesInv'
<1>1. /\ Under(q) /\ Finish(q) /\ pass[q].pc # "rm" /\ Event /\ strikes' = 0 /\ aged' = FALSE
      /\ UNCHANGED <<server, bound, plain, runtime, daemon, overlapped>>
  BY DEF ManifestFails, Under, ResetStrikes
<1>2. strikes' \in 0..Confirmations /\ aged' \in BOOLEAN
  BY <1>1, StrikesTyped DEF PackagesInv
<1> QED
  BY <1>1, <1>2, EventCounted, FinishSound

LEMMA EndPassSound ==
    ASSUME PackagesInv, NEW q \in Pass, EndPass(q)
    PROVE  PackagesInv'
<1>1. /\ Under(q) /\ Finish(q) /\ pass[q].pc # "rm"
      /\ UNCHANGED <<server, bound, plain, runtime, daemon, overlapped>>
      /\ UNCHANGED <<strikes, aged, events>>
  BY DEF EndPass, Under, proof
<1>2. strikes' \in 0..Confirmations /\ aged' \in BOOLEAN /\ events' \in 0..MaxEvents
  BY <1>1 DEF PackagesInv, ProvisioningTypeOK
<1> QED
  BY <1>1, <1>2, FinishSound

LEMMA ManifestDeniedSound ==
    ASSUME PackagesInv, NEW q \in Pass, ManifestDenied(q)
    PROVE  PackagesInv'
<1>0. /\ Under(q) /\ Strike(q) /\ pass[q].pc = "asked" /\ catalog[pass[q].ws] = Denied
      /\ ProvisioningTypeOK /\ pass \in [Pass -> PassState] /\ pass[q] \in PassState
      /\ pass[q].ws \in Workspace
      /\ UNCHANGED <<server, bound, plain, runtime, daemon, overlapped, events>>
      /\ UNCHANGED <<catalog, delivered, home, aside, versions, current, torn>>
  BY DEF ManifestDenied, Under, PackagesInv, ProvisioningTypeOK, PassSound, Placed, server, plain, runtime
<1>1. strikes' \in 0..Confirmations /\ aged' \in BOOLEAN /\ events' \in 0..MaxEvents
  BY <1>0, StrikesTyped DEF ProvisioningTypeOK
<1>2. CASE strikes' = Confirmations /\ aged
  <2> DEFINE d == [pass[q] EXCEPT !.pc = "next", !.gone = {p \in Package : Marked(p)}]
  <2>1. pass' = [pass EXCEPT ![q] = d] /\ pass'[q] = d /\ UNCHANGED <<inflight, pending>>
    BY <1>0, <1>2 DEF ManifestDenied
  <2>2. d \in PassState /\ d.pc = "next" /\ d.ws = pass[q].ws /\ d.alone = pass[q].alone
    BY <1>0 DEF PassState
  <2> HIDE DEF d
  <2>3. /\ pass' \in [Pass -> PassState]
        /\ \A u \in Pass : pass'[u].pc \in {"fetched", "swap", "displaced", "switch", "prune"} =>
             pass'[u].pkg # None /\ pass'[u].todo[pass'[u].pkg] # None
        /\ OnePass'
        /\ \A u \in Pass \ {q} : PassSound(u)'
    BY <1>0, <2>1, <2>2, OneMoves
  <2>4. PassSound(q)'
    BY <1>0, <2>1, <2>2, NextSound
  <2>5. FreshDaemon' /\ CurrentResolves'
    <3>1. FreshDaemon' /\ LinksLeft(q)
      BY <1>0 DEF PackagesInv, FreshDaemon, Resolved, LinksLeft, Dangling
    <3> QED
      BY <1>0, <2>1, <3>1, LinksGood
  <2>6. inflight' # None => Under(inflight)'
    BY <1>0, <2>1, <2>2 DEF ProvisioningTypeOK, Under
  <2>7. ProvisioningTypeOK'
    BY <1>0, <1>1, <2>1, <2>3, <2>6 DEF ProvisioningTypeOK
  <2> QED
    BY <2>3, <2>4, <2>5, <2>7 DEF PackagesInv
<1>3. CASE ~(strikes' = Confirmations /\ aged)
  <2>1. Finish(q) /\ pass[q].pc # "rm"
    BY <1>0, <1>3 DEF ManifestDenied
  <2> QED
    BY <1>0, <1>1, <2>1, FinishSound
<1> QED
  BY <1>2, <1>3
-----------------------------------------------------------------------------
(* The start of a pass.                                                      *)

(* A pass that starts disputes the ones under way.                           *)
LEMMA BeginSound ==
    ASSUME PackagesInv, NEW q \in Pass, NEW record \in PassState, Begin(q, record),
           UNCHANGED <<server, plain, runtime, env, events>>,
           bound' \in Workspace \cup {None}, inflight' \in {inflight, q},
           strikes' \in 0..Confirmations, aged' \in BOOLEAN,
           record.ws \in Workspace,
           record.pc = "asked" \/ (record.pc = "next" /\ catalog[record.ws] = Denied)
    PROVE  PackagesInv'
<1>a. PICK e \in BOOLEAN : e <=> \A u \in Pass : ~Under(u)
  OBVIOUS
<1> DEFINE d == [record EXCEPT !.alone = e]
<1>0. /\ ProvisioningTypeOK /\ pass \in [Pass -> PassState] /\ ~Under(q)
      /\ pass' = [o \in Pass |-> IF o = q THEN [record EXCEPT !.alone = \A u \in Pass : ~Under(u)]
                                 ELSE [pass[o] EXCEPT !.alone = FALSE]]
      /\ overlapped' = (overlapped \/ \E o \in Pass : Under(o))
      /\ UNCHANGED <<catalog, delivered, home, aside, versions, current, torn, daemon, pending, events>>
  BY DEF PackagesInv, ProvisioningTypeOK, Begin, server, plain, runtime, env
<1>1. pass'[q] = d
  BY <1>a, <1>0
<1>2. d \in PassState /\ d.pc = record.pc /\ d.ws = record.ws /\ d.alone = e
  BY DEF PassState
<1>3. \A u \in Pass \ {q} : pass'[u] = [pass[u] EXCEPT !.alone = FALSE]
  BY <1>0
<1>4. \A u \in Pass \ {q} :
        /\ pass'[u] \in PassState /\ pass'[u].pc = pass[u].pc /\ pass'[u].ws = pass[u].ws
        /\ pass'[u].pkg = pass[u].pkg /\ pass'[u].todo = pass[u].todo
        /\ pass'[u].prev = pass[u].prev /\ ~pass'[u].alone
  BY <1>0, <1>3 DEF PassState
<1> HIDE DEF d
<1>5. pass' \in [Pass -> PassState]
  <2>1. \A u \in Pass : pass'[u] \in PassState
    BY <1>1, <1>2, <1>4
  <2>2. pass' = [u \in Pass |-> pass'[u]]
    BY <1>0
  <2> QED
    BY <2>1, <2>2
<1>6. \A u \in Pass : pass'[u].pc \in {"fetched", "swap", "displaced", "switch", "prune"} =>
         pass'[u].pkg # None /\ pass'[u].todo[pass'[u].pkg] # None
  BY <1>0, <1>1, <1>2, <1>4 DEF ProvisioningTypeOK
<1>7. overlapped' \in BOOLEAN /\ (~overlapped' => ~overlapped /\ e) /\ (~e => overlapped')
  BY <1>a, <1>0 DEF ProvisioningTypeOK
<1>8. \A u \in Pass \ {q} : Under(u)' => ~Undisputed(u)' /\ ~e
  BY <1>a, <1>0, <1>4, <1>7 DEF Under, Undisputed
<1>9. Undisputed(q)' => e
  BY <1>1, <1>2, <1>7 DEF Undisputed
<1>10. OnePass'
  BY <1>8, <1>9 DEF OnePass
<1>11. ASSUME NEW u \in Pass \ {q} PROVE PassSound(u)'
  <2>0. PassSound(u)
    BY DEF PackagesInv
  <2>1. Placed(u)' /\ Wary(u)'
    BY <1>0, <1>4, <2>0 DEF PassSound, Placed, Wary, Under
  <2>2. Linked(u)'
    BY <1>8 DEF Linked, Under
  <2>3. Thorough(u)'
    BY <1>4 DEF Thorough
  <2> QED
    BY <2>1, <2>2, <2>3 DEF PassSound
<1>12. PassSound(q)'
  BY <1>0, <1>1, <1>2 DEF PassSound, Placed, Wary, Linked, Thorough, Under
<1>13. FreshDaemon' /\ CurrentResolves'
  <2>1. FreshDaemon'
    BY <1>0, <1>7 DEF PackagesInv, FreshDaemon, Resolved
  <2>2. \A r \in Runtime : Removing(r) => Removing(r)'
    BY <1>0, <1>4 DEF Removing, Under
  <2> QED
    BY <1>0, <1>7, <2>1, <2>2 DEF PackagesInv, CurrentResolves, Dangling
<1>14. inflight' \in Pass \cup {None} /\ (inflight' # None => Under(inflight)')
  BY <1>0, <1>1, <1>2, <1>4 DEF ProvisioningTypeOK, Under
<1>15. ProvisioningTypeOK'
  BY <1>0, <1>5, <1>6, <1>7, <1>14 DEF ProvisioningTypeOK
<1> QED
  BY <1>10, <1>11, <1>12, <1>13, <1>15 DEF PackagesInv

(* What is not about files, passes or the daemon may change.                 *)
LEMMA StandingStill ==
    ASSUME PackagesInv,
           UNCHANGED <<server, plain, runtime, pass, inflight, overlapped, events>>,
           daemon'.uses = daemon.uses, daemon'.switched = daemon.switched,
           daemon' \in [busy : BOOLEAN, uses : [Runtime -> Version \cup {None}], switched : 0..2],
           bound' \in Workspace \cup {None}, strikes' \in 0..Confirmations, aged' \in BOOLEAN,
           pending' \in BOOLEAN
    PROVE  PackagesInv'
<1>1. UNCHANGED <<catalog, delivered, home, aside, versions, current, torn, pass>>
  BY DEF server, plain, runtime
<1>2. ProvisioningTypeOK'
  BY <1>1 DEF PackagesInv, ProvisioningTypeOK, Under
<1>3. OnePass' /\ FreshDaemon' /\ CurrentResolves'
  BY <1>1 DEF PackagesInv, OnePass, Under, Undisputed, FreshDaemon, Resolved,
       CurrentResolves, Dangling, Removing
<1>4. ASSUME NEW q \in Pass PROVE PassSound(q)'
  <2>1. PassSound(q)
    BY DEF PackagesInv
  <2>2. Placed(q)' /\ Wary(q)' /\ Linked(q)'
    BY <1>1, <2>1 DEF PassSound, Placed, Under, Wary, Linked, Undisputed
  <2>3. Thorough(q)'
    BY <1>1, <2>1, SameFiles DEF PassSound, Thorough, Accounted
  <2> QED
    BY <2>2, <2>3 DEF PassSound
<1> QED
  BY <1>2, <1>3, <1>4 DEF PackagesInv

LEMMA RunSound ==
    ASSUME PackagesInv, NEW q \in Pass, NEW w \in Workspace, Run(q, w),
           UNCHANGED <<server, plain, runtime, env, events>>,
           bound' \in Workspace \cup {None},
           strikes' \in 0..Confirmations, aged' \in BOOLEAN
    PROVE  PackagesInv'
<1>1. Begin(q, Asking(w)) /\ inflight' = q
  BY Constants DEF Run
<1>2. Asking(w) \in PassState /\ Asking(w).ws = w /\ Asking(w).pc = "asked"
  BY Constants DEF Asking, Idle, PassState
<1> QED
  BY <1>1, <1>2, BeginSound

LEMMA SyncSound ==
    ASSUME PackagesInv, Sync PROVE PackagesInv'
<1>1. PICK w \in Workspace : w = bound
  BY DEF PackagesInv, ProvisioningTypeOK, Sync
<1>2. /\ UNCHANGED <<server, plain, runtime, env, events>> /\ UNCHANGED <<bound, strikes, aged>>
      /\ \E q \in Pass : Run(q, w)
  BY <1>1 DEF Sync, SyncFor, proof
<1>3. bound' \in Workspace \cup {None} /\ strikes' \in 0..Confirmations /\ aged' \in BOOLEAN
  BY <1>2 DEF PackagesInv, ProvisioningTypeOK
<1> QED
  BY <1>2, <1>3, RunSound

LEMMA RetrySound ==
    ASSUME PackagesInv, Retry PROVE PackagesInv'
<1>1. PICK w \in Workspace : w = bound
  BY DEF PackagesInv, ProvisioningTypeOK, Retry
<1>2. /\ UNCHANGED <<server, plain, runtime, env, events>> /\ UNCHANGED <<bound, strikes, aged>>
      /\ \E q \in Pass : Run(q, w)
  BY <1>1 DEF Retry, proof
<1>3. bound' \in Workspace \cup {None} /\ strikes' \in 0..Confirmations /\ aged' \in BOOLEAN
  BY <1>2 DEF PackagesInv, ProvisioningTypeOK
<1> QED
  BY <1>2, <1>3, RunSound

LEMMA BindSound ==
    ASSUME PackagesInv, NEW w \in Workspace, Bind(w) PROVE PackagesInv'
<1>1. /\ UNCHANGED <<server, plain, runtime, env, events>>
      /\ bound' = w /\ strikes' = 0 /\ aged' = FALSE /\ SyncFor(w)
  BY DEF Bind, ResetStrikes
<1>2. bound' \in Workspace \cup {None} /\ strikes' \in 0..Confirmations /\ aged' \in BOOLEAN
  BY <1>1, StrikesTyped DEF PackagesInv
<1>3. CASE inflight # None
  <2>1. UNCHANGED <<pass, inflight, overlapped>> /\ UNCHANGED <<daemon, pending>>
    BY <1>1, <1>3 DEF SyncFor, env
  <2>2. /\ daemon' \in [busy : BOOLEAN, uses : [Runtime -> Version \cup {None}], switched : 0..2]
        /\ pending' \in BOOLEAN
    BY <2>1 DEF PackagesInv, ProvisioningTypeOK
  <2> QED
    BY <1>1, <1>2, <2>1, <2>2, StandingStill
<1>4. CASE inflight = None
  <2>1. \E q \in Pass : Run(q, w)
    BY <1>1, <1>4 DEF SyncFor
  <2> QED
    BY <1>1, <1>2, <2>1, RunSound
<1> QED
  BY <1>3, <1>4

LEMMA CleanupSound ==
    ASSUME PackagesInv, NEW q \in Pass, NEW w \in Workspace, Cleanup(q, w) PROVE PackagesInv'
<1> DEFINE d == [Idle EXCEPT !.pc = "next", !.ws = w, !.gone = {p \in Package : Marked(p)}]
<1>1. /\ UNCHANGED <<server, plain, runtime, env, events>> /\ UNCHANGED <<bound, strikes, aged>>
      /\ catalog[w] = Denied /\ Begin(q, d) /\ inflight' = inflight
  BY DEF Cleanup, proof
<1>2. Idle \in PassState
  BY RecordsTyped, Constants DEF Idle, PassState
<1>3. d \in PassState /\ d.ws = w /\ d.pc = "next"
  BY <1>2 DEF PassState
<1> HIDE DEF d
<1>4. bound' \in Workspace \cup {None} /\ strikes' \in 0..Confirmations /\ aged' \in BOOLEAN
  BY <1>1 DEF PackagesInv, ProvisioningTypeOK
<1> QED
  BY <1>1, <1>3, <1>4, BeginSound

-----------------------------------------------------------------------------
(* The world around.                                                         *)

LEMMA CatalogChangesSound ==
    ASSUME PackagesInv, NEW w \in Workspace, NEW c \in Offer \cup {Denied}, CatalogChanges(w, c)
    PROVE  PackagesInv'
<1>0. /\ ProvisioningTypeOK /\ pass \in [Pass -> PassState] /\ Event
      /\ catalog' = [catalog EXCEPT ![w] = c]
      /\ pass' = [q \in Pass |-> [pass[q] EXCEPT !.alone = FALSE]]
      /\ UNCHANGED <<delivered, bound, home, aside, versions, current, torn>>
      /\ UNCHANGED <<inflight, strikes, aged, daemon, pending, overlapped>>
  BY DEF PackagesInv, ProvisioningTypeOK, CatalogChanges, plain, runtime, proof, env
<1>1. \A u \in Pass :
        /\ pass'[u] \in PassState /\ pass'[u].pc = pass[u].pc /\ pass'[u].ws = pass[u].ws
        /\ pass'[u].pkg = pass[u].pkg /\ pass'[u].todo = pass[u].todo
        /\ pass'[u].prev = pass[u].prev /\ ~pass'[u].alone
  <2> SUFFICES ASSUME NEW u \in Pass
               PROVE  /\ pass'[u] \in PassState /\ pass'[u].pc = pass[u].pc /\ pass'[u].ws = pass[u].ws
                      /\ pass'[u].pkg = pass[u].pkg /\ pass'[u].todo = pass[u].todo
                      /\ pass'[u].prev = pass[u].prev /\ ~pass'[u].alone
    OBVIOUS
  <2>1. pass[u] \in PassState /\ pass'[u] = [pass[u] EXCEPT !.alone = FALSE]
    BY <1>0
  <2> QED
    BY <2>1 DEF PassState
<1>2. pass' \in [Pass -> PassState]
  BY <1>0, <1>1
<1>3. \A u \in Pass : Undisputed(u)' => Undisputed(u)
  BY <1>0, <1>1 DEF Undisputed
<1>4. OnePass' /\ FreshDaemon' /\ CurrentResolves'
  BY <1>0, <1>1, <1>3 DEF PackagesInv, OnePass, Under, FreshDaemon, Resolved,
       CurrentResolves, Dangling, Removing
<1>5. ASSUME NEW u \in Pass PROVE PassSound(u)'
  <2>0. PassSound(u)
    BY DEF PackagesInv
  <2>1. Placed(u)' /\ Wary(u)'
    BY <1>0, <1>1, <2>0 DEF PassSound, Placed, Wary, Under
  <2>2. Linked(u)'
    BY <1>0, <1>1, <1>3, <2>0 DEF PassSound, Linked
  <2>3. Thorough(u)'
    BY <1>1 DEF Thorough
  <2> QED
    BY <2>1, <2>2, <2>3 DEF PassSound
<1>6. catalog' \in [Workspace -> Offer \cup {Denied}] /\ events' \in 0..MaxEvents
  BY <1>0, EventCounted DEF ProvisioningTypeOK
<1>7. ProvisioningTypeOK'
  BY <1>0, <1>1, <1>2, <1>6 DEF ProvisioningTypeOK, Under
<1> QED
  BY <1>4, <1>5, <1>7 DEF PackagesInv

LEMMA TasksSound ==
    ASSUME PackagesInv, TaskBegins \/ TaskEnds PROVE PackagesInv'
<1>1. PICK b \in BOOLEAN : daemon' = [daemon EXCEPT !.busy = b]
  BY DEF TaskBegins, TaskEnds
<1>2. /\ UNCHANGED <<server, bound, plain, runtime, pass, inflight, overlapped, events>>
      /\ UNCHANGED <<strikes, aged, pending>>
  BY DEF TaskBegins, TaskEnds, proof
<1>3. /\ daemon \in [busy : BOOLEAN, uses : [Runtime -> Version \cup {None}], switched : 0..2]
      /\ bound' \in Workspace \cup {None} /\ strikes' \in 0..Confirmations /\ aged' \in BOOLEAN
      /\ pending' \in BOOLEAN
  BY <1>2 DEF PackagesInv, ProvisioningTypeOK
<1>4. /\ daemon' \in [busy : BOOLEAN, uses : [Runtime -> Version \cup {None}], switched : 0..2]
      /\ daemon'.uses = daemon.uses /\ daemon'.switched = daemon.switched
  BY <1>1, <1>3
<1> QED
  BY <1>2, <1>3, <1>4, StandingStill

LEMMA DaemonRestartsSound ==
    ASSUME PackagesInv, DaemonRestarts PROVE PackagesInv'
<1>0. /\ ProvisioningTypeOK /\ pass \in [Pass -> PassState]
      /\ current \in [Runtime -> Version \cup {None}] /\ versions \in [Runtime -> SUBSET Version]
      /\ pending' = FALSE
      /\ daemon' = [daemon EXCEPT !.uses = [r \in Runtime |-> Resolved(r)], !.switched = 0]
      /\ UNCHANGED <<catalog, delivered, bound, home, aside, versions, current, torn>>
      /\ UNCHANGED <<pass, inflight, strikes, aged, overlapped, events>>
  BY DEF PackagesInv, ProvisioningTypeOK, DaemonRestarts, server, plain, runtime, proof
<1>1. [r \in Runtime |-> Resolved(r)] \in [Runtime -> Version \cup {None}]
  BY <1>0 DEF Resolved
<1>2. /\ daemon' \in [busy : BOOLEAN, uses : [Runtime -> Version \cup {None}], switched : 0..2]
      /\ daemon'.uses = [r \in Runtime |-> Resolved(r)] /\ daemon'.switched = 0
  <2>1. PICK u \in [Runtime -> Version \cup {None}] : u = [r \in Runtime |-> Resolved(r)]
    BY <1>1
  <2>2. /\ daemon' = [daemon EXCEPT !.uses = u, !.switched = 0]
        /\ daemon \in [busy : BOOLEAN, uses : [Runtime -> Version \cup {None}], switched : 0..2]
    BY <1>0, <2>1 DEF ProvisioningTypeOK
  <2>3. /\ daemon' \in [busy : BOOLEAN, uses : [Runtime -> Version \cup {None}], switched : 0..2]
        /\ daemon'.uses = u /\ daemon'.switched = 0
    <3>1. daemon' = [busy |-> daemon.busy, uses |-> u, switched |-> 0] /\ daemon.busy \in BOOLEAN
      BY <2>2
    <3> QED
      BY <2>1, <3>1
  <2> QED
    BY <2>1, <2>3
<1>3. \A r \in Runtime : daemon'.uses[r] = Resolved(r) /\ Resolved(r)' = Resolved(r)
  BY <1>0, <1>2 DEF Resolved
<1>4. OnePass' /\ FreshDaemon' /\ CurrentResolves'
  BY <1>0, <1>3 DEF PackagesInv, OnePass, Under, Undisputed, FreshDaemon, Resolved,
       CurrentResolves, Dangling, Removing
<1>5. ASSUME NEW u \in Pass PROVE PassSound(u)'
  <2>0. PassSound(u)
    BY DEF PackagesInv
  <2>1. Placed(u)' /\ Wary(u)'
    BY <1>0, <2>0 DEF PassSound, Placed, Wary, Under
  <2>2. Linked(u)'
    BY <1>0, <1>3, <2>0 DEF PassSound, Placed, Linked, Undisputed, Resolved
  <2>3. Thorough(u)'
    BY <1>0, <2>0, SameFiles DEF PassSound, Thorough, Accounted
  <2> QED
    BY <2>1, <2>2, <2>3 DEF PassSound
<1>6. ProvisioningTypeOK'
  BY <1>0, <1>2 DEF ProvisioningTypeOK, Under
<1> QED
  BY <1>4, <1>5, <1>6 DEF PackagesInv

LEMMA AllIdle ==
    ASSUME \A q \in Pass : pass[q] = Idle
    PROVE  OnePass /\ \A q \in Pass : PassSound(q)
<1>1. Idle.pc = "idle" /\ Idle.alone = FALSE
  BY DEF Idle
<1> QED
  BY <1>1 DEF OnePass, Under, PassSound, Placed, Wary, Linked, Thorough

LEMMA CrashSound ==
    ASSUME PackagesInv, Crash PROVE PackagesInv'
<1>0. /\ ProvisioningTypeOK /\ pass' = [q \in Pass |-> Idle] /\ Event
      /\ inflight' = None /\ bound' = None /\ pending' = FALSE /\ strikes' = 0 /\ aged' = FALSE
      /\ torn' = torn \cup {r \in Runtime : Removing(r)}
      /\ UNCHANGED <<catalog, delivered, home, aside, versions, current, daemon, overlapped>>
  BY DEF PackagesInv, Crash, ResetStrikes, Removing, server, plain
<1>1. Idle \in PassState /\ Idle.pc = "idle" /\ Idle.alone = FALSE
  BY Constants DEF Idle, PassState
<1>2. OnePass' /\ \A q \in Pass : PassSound(q)'
  BY <1>0, <1>1 DEF OnePass, Under, PassSound, Placed, Wary, Linked, Thorough
<1>3. FreshDaemon' /\ CurrentResolves'
  BY <1>0 DEF PackagesInv, FreshDaemon, Resolved, CurrentResolves, Dangling
<1>4. events' \in 0..MaxEvents /\ strikes' \in 0..Confirmations /\ aged' \in BOOLEAN
  BY <1>0, EventCounted, StrikesTyped
<1>5. ProvisioningTypeOK'
  BY <1>0, <1>1, <1>4 DEF ProvisioningTypeOK, Under
<1> QED
  BY <1>2, <1>3, <1>5 DEF PackagesInv

LEMMA InitSound == Init => PackagesInv
<1> SUFFICES ASSUME Init PROVE PackagesInv
  OBVIOUS
<1>1. /\ catalog \in [Workspace -> Offer \cup {Denied}]
      /\ home \in [Plain -> Version \cup {None, Legacy}]
      /\ current = [r \in Runtime |-> None]
      /\ daemon = [busy |-> FALSE, uses |-> current, switched |-> 0]
  BY ProvisioningAssumption DEF Init
<1>2. /\ Idle \in PassState /\ Idle.pc = "idle"
      /\ \A q \in Pass : pass[q] = Idle
  BY Constants DEF Init, Idle, PassState
<1>3. 0 \in 0..Confirmations /\ 0 \in 0..MaxEvents
  BY Constants
<1>4. ProvisioningTypeOK
  <2>1. /\ delivered \in [Workspace -> SUBSET Package] /\ bound \in Workspace \cup {None}
        /\ aside \subseteq Plain /\ versions \in [Runtime -> SUBSET Version] /\ torn \subseteq Runtime
        /\ inflight = None /\ strikes \in 0..Confirmations /\ aged \in BOOLEAN
        /\ pending \in BOOLEAN /\ overlapped \in BOOLEAN /\ events \in 0..MaxEvents
    BY <1>3 DEF Init
  <2>2. pass \in [Pass -> PassState]
    BY <1>2 DEF Init
  <2>3. /\ current \in [Runtime -> Version \cup {None}]
        /\ daemon \in [busy : BOOLEAN, uses : [Runtime -> Version \cup {None}], switched : 0..2]
    BY <1>1
  <2> QED
    BY <1>1, <1>2, <2>1, <2>2, <2>3 DEF ProvisioningTypeOK
<1>5. FreshDaemon /\ CurrentResolves
  BY <1>1 DEF FreshDaemon, CurrentResolves, Dangling
<1> QED
  BY <1>2, <1>4, <1>5, AllIdle DEF PackagesInv

LEMMA StutterSound ==
    ASSUME PackagesInv, UNCHANGED vars PROVE PackagesInv'
<1>1. /\ UNCHANGED <<server, plain, runtime, pass, inflight, overlapped, events>>
      /\ UNCHANGED <<daemon, bound, strikes, aged, pending>>
  BY DEF vars, proof, env
<1>2. /\ daemon' \in [busy : BOOLEAN, uses : [Runtime -> Version \cup {None}], switched : 0..2]
      /\ bound' \in Workspace \cup {None} /\ strikes' \in 0..Confirmations /\ aged' \in BOOLEAN
      /\ pending' \in BOOLEAN
  BY <1>1 DEF PackagesInv, ProvisioningTypeOK
<1> QED
  BY <1>1, <1>2, StandingStill

-----------------------------------------------------------------------------
LEMMA PassStepSound ==
    ASSUME PackagesInv, NEW q \in Pass, PassStep(q) PROVE PackagesInv'
<1>1. CASE ManifestServed(q) BY <1>1, ManifestServedSound
<1>2. CASE ManifestFails(q) BY <1>2, ManifestFailsSound
<1>3. CASE ManifestDenied(q) BY <1>3, ManifestDeniedSound
<1>4. CASE InstallFresh(q) BY <1>4, InstallFreshSound
<1>5. CASE InstallSkipped(q) BY <1>5, InstallSkippedSound
<1>6. CASE AskDaemon(q) BY <1>6, AskDaemonSound
<1>7. CASE Displace(q) BY <1>7, DisplaceSound
<1>8. CASE MoveIn(q) BY <1>8, MoveInSound
<1>9. CASE MoveInFails(q) BY <1>9, MoveInFailsSound
<1>10. CASE SwitchCurrent(q) BY <1>10, SwitchCurrentSound
<1>11. CASE Prune(q) BY <1>11, PruneSound
<1>12. CASE Remove(q) \/ RemoveFails(q) BY <1>12, RemoveSound, RemoveFailsSound
<1>18. CASE ListVersions(q) BY <1>18, ListVersionsSound
<1>19. CASE Unlink(q) \/ UnlinkFails(q) BY <1>19, UnlinkSound
<1>20. ASSUME NEW v \in Version, RemoveVersion(q, v) \/ RemoveVersionFails(q, v) PROVE PackagesInv'
  BY <1>20, RemoveVersionSound, RemoveVersionFailsSound
<1>13. CASE EndPass(q) BY <1>13, EndPassSound
<1>14. ASSUME NEW p \in Package, AlreadyInstalled(q, p) PROVE PackagesInv'
  BY <1>14, AlreadyInstalledSound
<1>15. ASSUME NEW p \in Package, Fetch(q, p) PROVE PackagesInv'
  BY <1>15, FetchSound
<1>16. ASSUME NEW p \in Package, FetchFails(q, p) PROVE PackagesInv'
  BY <1>16, FetchFailsSound
<1>17. ASSUME NEW p \in Package, AskRemoval(q, p) PROVE PackagesInv'
  BY <1>17, AskRemovalSound
<1> QED
  BY <1>1, <1>2, <1>3, <1>4, <1>5, <1>6, <1>7, <1>8, <1>9, <1>10, <1>11, <1>12, <1>13,
     <1>14, <1>15, <1>16, <1>17, <1>18, <1>19, <1>20 DEF PassStep

LEMMA StepSound == PackagesInv /\ [Next]_vars => PackagesInv'
<1> SUFFICES ASSUME PackagesInv, [Next]_vars PROVE PackagesInv'
  OBVIOUS
<1>1. ASSUME NEW q \in Pass, PassStep(q) PROVE PackagesInv'
  BY <1>1, PassStepSound
<1>2. CASE Sync BY <1>2, SyncSound
<1>3. CASE Retry BY <1>3, RetrySound
<1>4. ASSUME NEW w \in Workspace, Bind(w) PROVE PackagesInv'
  BY <1>4, BindSound
<1>5. ASSUME NEW w \in Workspace, NEW q \in Pass, Cleanup(q, w) PROVE PackagesInv'
  BY <1>5, CleanupSound
<1>6. ASSUME NEW w \in Workspace, NEW c \in Offer \cup {Denied}, CatalogChanges(w, c)
      PROVE  PackagesInv'
  BY <1>6, CatalogChangesSound
<1>7. CASE TaskBegins \/ TaskEnds BY <1>7, TasksSound
<1>8. CASE DaemonRestarts BY <1>8, DaemonRestartsSound
<1>9. CASE Crash BY <1>9, CrashSound
<1>10. CASE UNCHANGED vars BY <1>10, StutterSound
<1> QED
  BY <1>1, <1>2, <1>3, <1>4, <1>5, <1>6, <1>7, <1>8, <1>9, <1>10 DEF Next

LEMMA AlwaysSound == Spec => []PackagesInv
<1>1. PackagesInv /\ [Next]_vars => PackagesInv'
  BY StepSound
<1> QED
  BY InitSound, <1>1, PTL DEF Spec
-----------------------------------------------------------------------------
(* THEOREM: every variable keeps its type, a pass that installs has a package *)
(* and a version in hand, and the pass that others join is under way.        *)
THEOREM ProvisioningTypeCorrect == Spec => []ProvisioningTypeOK
<1>1. PackagesInv => ProvisioningTypeOK
  BY DEF PackagesInv
<1> QED
  BY AlwaysSound, <1>1, PTL

(* THEOREM: as long as passes never ran side by side, the link named current  *)
(* of a runtime leads to a directory that is there, except between the steps  *)
(* of removeRevokedRuntimePackage and after one of those that a crash cut     *)
(* short or whose link could not be removed: at every other instant, through  *)
(* crashes and failures.                                                     *)
THEOREM LinksResolve == Spec => []CurrentResolves
<1>1. PackagesInv => CurrentResolves
  BY DEF PackagesInv
<1> QED
  BY AlwaysSound, <1>1, PTL

(* The steps that touch packages.                                            *)
LEMMA FileSteps ==
    ASSUME [Next]_vars
    PROVE  \/ UNCHANGED <<home, versions>>
           \/ \E q \in Pass : \/ InstallFresh(q) \/ Displace(q) \/ MoveIn(q) \/ MoveInFails(q)
                              \/ Prune(q) \/ Remove(q) \/ \E v \in Version : RemoveVersion(q, v)
<1>1. ASSUME NEW q \in Pass, PassStep(q)
      PROVE  \/ UNCHANGED <<home, versions>>
             \/ \/ InstallFresh(q) \/ Displace(q) \/ MoveIn(q) \/ MoveInFails(q)
                \/ Prune(q) \/ Remove(q) \/ \E v \in Version : RemoveVersion(q, v)
  BY <1>1 DEF PassStep, ManifestServed, ManifestFails, ManifestDenied, InstallSkipped, AskDaemon,
              SwitchCurrent, EndPass, AlreadyInstalled, Fetch, FetchFails, AskRemoval,
              RemoveFails, Stumbles, RemoveVersionFails, ListVersions, Unlink, UnlinkFails,
              plain, runtime
<1>2. CASE Sync \/ Retry \/ TaskBegins \/ TaskEnds \/ DaemonRestarts \/ Crash \/ UNCHANGED vars
  BY <1>2 DEF Sync, Retry, TaskBegins, TaskEnds, DaemonRestarts, Crash, vars, plain, runtime
<1>3. ASSUME NEW w \in Workspace, Bind(w) \/ \E q \in Pass : Cleanup(q, w)
      PROVE  UNCHANGED <<home, versions>>
  BY <1>3 DEF Bind, Cleanup, plain, runtime
<1>4. ASSUME NEW w \in Workspace, NEW c \in Offer \cup {Denied}, CatalogChanges(w, c)
      PROVE  UNCHANGED <<home, versions>>
  BY <1>4 DEF CatalogChanges, plain, runtime
<1> QED
  BY <1>1, <1>2, <1>3, <1>4 DEF Next

(* THEOREM: content without a marker is never deleted by atomicSwapInstall or *)
(* removeOneRevokedPackage: it stays or is set aside, whatever number of      *)
(* passes meets in a directory.                                              *)
THEOREM LegacySafe == Spec => LegacyKept
<1>1. ASSUME PackagesInv, [Next]_vars, NEW p \in Plain, home[p] = Legacy, home'[p] # Legacy
      PROVE  p \in aside'
  <2>0. home \in [Plain -> Version \cup {None, Legacy}] /\ Legacy # None
    BY <1>1, Constants DEF PackagesInv, ProvisioningTypeOK
  <2>1. PICK q \in Pass : \/ InstallFresh(q) \/ Displace(q) \/ MoveIn(q) \/ MoveInFails(q)
                          \/ Prune(q) \/ Remove(q) \/ \E v \in Version : RemoveVersion(q, v)
    BY <1>1, FileSteps
  <2>2. Placed(q) /\ Wary(q)
    BY <1>1 DEF PackagesInv, PassSound
  <2>3. ASSUME InstallFresh(q) PROVE FALSE
    BY <1>1, <2>0, <2>3 DEF InstallFresh, plain
  <2>4. ASSUME MoveIn(q) \/ MoveInFails(q) PROVE FALSE
    BY <1>1, <2>0, <2>4 DEF MoveIn, MoveInFails
  <2>5. ASSUME Prune(q) \/ \E v \in Version : RemoveVersion(q, v) PROVE FALSE
    BY <1>1, <2>5 DEF Prune, RemoveVersion, plain
  <2>6. ASSUME Remove(q) PROVE FALSE
    BY <1>1, <2>0, <2>2, <2>6 DEF Remove, Wary, plain
  <2>7. CASE Displace(q)
    <3>1. pass[q].pkg = p /\ pass[q].pc = "swap"
      BY <1>1, <2>0, <2>7 DEF Displace, plain
    <3>2. pass[q].prev = Legacy
      BY <1>1, <2>2, <3>1 DEF Wary
    <3> QED
      BY <1>1, <2>0, <2>7, <3>1, <3>2 DEF Displace
  <2> QED
    BY <2>1, <2>3, <2>4, <2>5, <2>6, <2>7
<1>2. PackagesInv /\ [Next]_vars =>
        [\A p \in Plain : home[p] = Legacy /\ home'[p] # Legacy => p \in aside']_vars
  BY <1>1
<1> QED
  BY AlwaysSound, <1>2, PTL DEF Spec, LegacyKept

(* THEOREM: switchRuntimeCurrentAndPrune leaves the version a working daemon   *)
(* was started with, if no link was switched twice since nor removed and      *)
(* passes never ran side by side.                                            *)
THEOREM RuntimesKept == Spec => RuntimeInUseKept
<1>1. ASSUME PackagesInv, [Next]_vars, NEW r \in Runtime,
             daemon'.switched < 2, ~overlapped', daemon.uses[r] \in versions[r]
      PROVE  daemon.uses[r] \in versions'[r]
  <2>0. versions \in [Runtime -> SUBSET Version]
    BY <1>1 DEF PackagesInv, ProvisioningTypeOK
  <2>1. CASE versions' = versions
    BY <1>1, <2>1
  <2>2. ASSUME NEW q \in Pass, InstallFresh(q) PROVE daemon.uses[r] \in versions'[r]
    BY <1>1, <2>0, <2>2 DEF InstallFresh, runtime
  <2>3. ASSUME NEW q \in Pass, Displace(q) \/ MoveIn(q) \/ MoveInFails(q) PROVE versions' = versions
    BY <2>3 DEF Displace, MoveIn, MoveInFails, runtime
  <2>4. ASSUME NEW q \in Pass, Prune(q) PROVE daemon.uses[r] \in versions'[r]
    <3>1. /\ pass[q].pc = "prune" /\ overlapped' = overlapped /\ daemon' = daemon
          /\ versions' = [versions EXCEPT ![pass[q].pkg] = @ \cap {pass[q].todo[pass[q].pkg], pass[q].prev}]
      BY <2>4 DEF Prune, Quiet, env
    <3>2. /\ daemon.uses[pass[q].pkg] \in {None, pass[q].todo[pass[q].pkg], pass[q].prev}
          /\ pass[q].pkg \in Runtime
      BY <1>1, <3>1 DEF PackagesInv, PassSound, Placed, Linked, Undisputed
    <3> QED
      BY <1>1, <2>0, <3>1, <3>2, Constants
  <2>5. ASSUME NEW q \in Pass, Remove(q) PROVE versions' = versions
    BY <2>5 DEF Remove, runtime
  <2>6. ASSUME NEW q \in Pass, NEW v \in Version, RemoveVersion(q, v) PROVE FALSE
    <3>1. daemon' = [daemon EXCEPT !.switched = 2]
      BY <2>6 DEF RemoveVersion
    <3>2. daemon'.switched = 2
      BY <1>1, <3>1 DEF PackagesInv, ProvisioningTypeOK
    <3> QED
      BY <1>1, <3>2
  <2> QED
    BY <1>1, <2>1, <2>2, <2>3, <2>4, <2>5, <2>6, FileSteps
<1>2. PackagesInv /\ [Next]_vars =>
        [\A r \in Runtime :
           /\ daemon.busy /\ daemon'.switched < 2 /\ ~overlapped'
           /\ daemon.uses[r] \in versions[r]
           => daemon.uses[r] \in versions'[r]]_vars
  BY <1>1
<1> QED
  BY AlwaysSound, <1>2, PTL DEF Spec, RuntimeInUseKept

(* THEOREM: a pass that nothing disturbed leaves what its workspace serves:   *)
(* every package runSync was served is installed and linked, and what it was  *)
(* served before and is no longer is gone.                                   *)
THEOREM PassesSync == Spec => UndisturbedPassSyncs
<1>1. ASSUME PackagesInv, NEW q \in Pass, EndPass(q), pass[q].alone, catalog[pass[q].ws] # Denied
      PROVE  InSync(pass[q].ws)
  <2>1. /\ pass[q].gone = {} /\ \A p \in Package : pass[q].todo[p] = None
        /\ Accounted(pass[q], catalog[pass[q].ws])
    BY <1>1 DEF EndPass, Served, PackagesInv, PassSound, Thorough
  <2> QED
    BY <2>1 DEF InSync, Accounted, Placement
<1>2. PackagesInv /\ [Next]_vars =>
        [\A q \in Pass :
           EndPass(q) /\ pass[q].alone /\ catalog[pass[q].ws] # Denied
             => InSync(pass[q].ws)]_vars
  BY <1>1
<1> QED
  BY AlwaysSound, <1>2, PTL DEF Spec, UndisturbedPassSyncs
=============================================================================
