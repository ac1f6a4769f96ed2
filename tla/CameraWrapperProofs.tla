------------------------ MODULE CameraWrapperProofs ------------------------
(***************************************************************************)
(* The properties of CameraWrapper for every number of wrappers and of     *)
(* parameter strings.  NothingStranded speaks of the moments between two   *)
(* opens; what makes it hold there is what an open has built at each of    *)
(* its steps, and that a camera which was stranded is not a client's.      *)
(***************************************************************************)
EXTENDS CameraWrapper, TLAPS

USE DEF NoCamera, Id

Opening(w) == ~Idle /\ call.w = w

\* What the open in progress has built, and that nobody else has its wrapper
\* or its camera.
OpenSoFar ==
  /\ ~Idle => call.w \notin client /\ \A v \in client : wrapper[v].id # call.id
  /\ call.at \in {"check", "alloc"} => ~wrapper[call.w].live
  /\ ~Idle => ~wrapper[call.w].ops
  /\ call.at \in {"vendor", "ops"} =>
       wrapper[call.w].live /\ wrapper[call.w].id = call.id
  /\ call.at = "ops" =>
       wrapper[call.w].vendor = call.id /\ call.id \in vendorOpen \ stranded

\* Every other wrapper that exists is the service's, whole, and with its own
\* camera, which was never stranded.
ClientsAreWhole ==
  /\ \A w \in Handle : ~Opening(w) =>
       (wrapper[w].live <=> w \in client) /\ (wrapper[w].ops <=> w \in client)
  /\ \A w \in client : wrapper[w].vendor = wrapper[w].id
                       /\ wrapper[w].id \in vendorOpen \ stranded
  /\ \A v, w \in client : v # w => wrapper[v].id # wrapper[w].id

\* A camera is open for a client, or stranded, or about to be one of them.
OpenIsOwned ==
  /\ stranded \subseteq vendorOpen
  /\ \A c \in vendorOpen : \/ c \in stranded
                           \/ \E w \in client : wrapper[w].id = c
                           \/ call.at = "ops" /\ call.id = c

WrapperInv == OpenSoFar /\ ClientsAreWhole /\ OpenIsOwned

\* What a client reads of the vendor is the vendor's, too.
CopiesAreVendors ==
  /\ \A c \in Camera : iso[c] \in VendorIso
  /\ \A w \in Handle : copy[w] \in VendorIso

-----------------------------------------------------------------------------
(* What the actions write is of the types that are declared.               *)

LEMMA CameraRange == Camera \subseteq {0, 1} /\ NumCameras \in {1, 2} /\ MaxStrings \in Nat
  BY CameraAssumption DEF Camera

Wrapper == [live : BOOLEAN, ops : BOOLEAN, id : (Id \ {NumCameras + 1}) \cup {NoCamera},
            vendor : Camera \cup {NoCamera}]

LEMMA WrapperTyped ==
  ASSUME TypeOK, OpenAllocates \/ OpenOps
  PROVE  wrapper' \in [Handle -> Wrapper]
<1>1. wrapper \in [Handle -> Wrapper] /\ call.w \in Handle
  BY DEF TypeOK, Wrapper
<1>2. CASE OpenAllocates
  <2>1. \/ /\ InBounds(call.id)
           /\ wrapper' = [wrapper EXCEPT ![call.w] =
                            [NoWrapper EXCEPT !.live = TRUE, !.id = call.id]]
        \/ wrapper' = wrapper
    BY <1>2 DEF OpenAllocates
  <2>2. InBounds(call.id) => call.id \in (Id \ {NumCameras + 1}) \cup {NoCamera}
    BY CameraRange DEF InBounds, TypeOK
  <2>3. \A id \in (Id \ {NumCameras + 1}) \cup {NoCamera} :
          [NoWrapper EXCEPT !.live = TRUE, !.id = id] \in Wrapper
    BY DEF NoWrapper, Wrapper
  <2> QED BY <1>1, <2>1, <2>2, <2>3
<1>3. CASE OpenOps
  <2>1. wrapper' = [wrapper EXCEPT ![call.w] = [wrapper[call.w] EXCEPT !.ops = TRUE]]
          \/ wrapper' = wrapper
    BY <1>1, <1>3 DEF OpenOps
  <2>2. [wrapper[call.w] EXCEPT !.ops = TRUE] \in Wrapper
    BY <1>1 DEF Wrapper
  <2> QED BY <1>1, <2>1, <2>2
<1> QED BY <1>2, <1>3

\* Who calls the vendor is a client, and a client's camera is open at every step
\* of an open in progress.
LEMMA CallsAreOpen ==
  ASSUME TypeOK, WrapperInv, [Next]_vars, called' # called
  PROVE  called' \in vendorOpen
<1>1. ASSUME NEW w \in client, VendorCall(w)
      PROVE  called' \in vendorOpen
  BY <1>1 DEF VendorCall, WrapperInv, ClientsAreWhole
<1>2. ASSUME NEW w \in Handle, NEW op \in Operation, Operate(w, op)
      PROVE  called' \in vendorOpen
  BY <1>1, <1>2 DEF Operate
<1>3. ASSUME NEW w \in Handle, SetParameters(w) \/ GetParameters(w)
      PROVE  called' \in vendorOpen
  BY <1>1, <1>3 DEF SetParameters, GetParameters
<1>4. ASSUME NEW w \in Handle, Close(w) \/ PutParameters(w)
      PROVE  called' = called
  BY <1>4 DEF Close, PutParameters
<1>5. ASSUME NEW id \in Id, NEW w \in Handle, Open(id, w)
      PROVE  called' = called
  BY <1>5 DEF Open
<1>6. OpenChecks \/ OpenAllocates \/ OpenVendor \/ OpenOps \/ OpenFails \/ AskModule
      \/ UNCHANGED vars => called' = called
  BY DEF OpenChecks, OpenAllocates, OpenVendor, OpenOps, OpenFails, AskModule, vars
<1> QED BY <1>2, <1>3, <1>4, <1>5, <1>6 DEF Next

LEMMA CallTyped ==
  ASSUME TypeOK, WrapperInv, [Next]_vars
  PROVE  called' \in Camera \cup {NoCamera}
  BY CallsAreOpen DEF TypeOK

\* What a client sets, be it a mode it was told of or one it read, is a mode
\* the vendor knows when it gets there.
LEMMA FixupIsVendors ==
  ASSUME NEW mode \in IsoMode \cup iso_values[1]
  PROVE  camera_fixup_setparams(mode) \in VendorIso
  BY DEF IsoMode, VendorIso, iso_values, camera_fixup_setparams

LEMMA SetsVendorMode ==
  ASSUME TypeOK, WrapperInv, NEW w \in Handle, SetParameters(w)
  PROVE  \E mode \in VendorIso : iso' = [iso EXCEPT ![wrapper[w].vendor] = mode]
<1>1. wrapper[w].id \in {0, 1}
  BY CameraRange DEF SetParameters, WrapperInv, ClientsAreWhole, TypeOK
<1>2. copy[w] \in IsoMode /\ iso_values[0] \subseteq IsoMode
  BY DEF TypeOK, IsoMode
<1>3. \A mode \in iso_values[wrapper[w].id] \cup (IF held[w] > 0 THEN {copy[w]} ELSE {}) :
        camera_fixup_setparams(mode) \in VendorIso
  BY <1>1, <1>2, FixupIsVendors
<1> QED BY <1>3 DEF SetParameters

-----------------------------------------------------------------------------
(* The invariant. *)

CameraIInv == TypeOK /\ WrapperInv /\ CopiesAreVendors

LEMMA InitHolds == Init => CameraIInv
<1> SUFFICES ASSUME Init PROVE CameraIInv
  OBVIOUS
<1>1. /\ \A w \in Handle : ~wrapper[w].live /\ ~wrapper[w].ops
      /\ wrapper \in [Handle -> [live : BOOLEAN, ops : BOOLEAN,
                                 id : (Id \ {NumCameras + 1}) \cup {NoCamera},
                                 vendor : Camera \cup {NoCamera}]]
  BY DEF Init, NoWrapper
<1>2. TypeOK
  <2>1. module \in BOOLEAN
    BY DEF Init
  <2> QED BY <1>1, <2>1, CameraRange DEF Init, TypeOK, IsoMode, VendorIso
<1>3. WrapperInv
  BY <1>1 DEF Init, WrapperInv, OpenSoFar, ClientsAreWhole, OpenIsOwned, Opening, Idle
<1>4. CopiesAreVendors
  BY DEF Init, CopiesAreVendors, VendorIso
<1> QED BY <1>2, <1>3, <1>4 DEF CameraIInv

LEMMA TypeStep == TypeOK /\ WrapperInv /\ [Next]_vars => TypeOK'
<1> SUFFICES ASSUME TypeOK, WrapperInv, [Next]_vars PROVE TypeOK'
  OBVIOUS
<1> USE CameraRange DEF TypeOK, Idle, heap, params
<1>1. ASSUME NEW id \in Id, NEW w \in Handle, Open(id, w) PROVE TypeOK'
  BY <1>1 DEF Open
<1>2. CASE OpenChecks
  BY <1>2 DEF OpenChecks, At
<1>3. CASE OpenAllocates
  BY <1>3, WrapperTyped DEF OpenAllocates, At, Wrapper
<1>4. CASE OpenVendor
  BY <1>4 DEF OpenVendor, At
<1>5. CASE OpenOps
  <2>1. stranded' \subseteq Camera
    BY <1>5 DEF OpenOps, WrapperInv, OpenSoFar, At
  <2> QED BY <1>5, <2>1, WrapperTyped DEF OpenOps, At, Wrapper
<1>6. CASE OpenFails
  BY <1>6 DEF OpenFails, NoWrapper
<1>7. CASE AskModule
  BY <1>7 DEF AskModule
<1>8. ASSUME NEW w \in Handle, Close(w) PROVE TypeOK'
  BY <1>8 DEF Close, NoWrapper
<1>9. ASSUME NEW w \in Handle, NEW op \in Operation, Operate(w, op) PROVE TypeOK'
  BY <1>9, CallTyped DEF Operate
<1>10. ASSUME NEW w \in Handle, SetParameters(w) PROVE TypeOK'
  <2>1. called' \in Camera \cup {NoCamera}
    BY CallTyped
  <2>2. iso' \in [Camera -> IsoMode]
    BY <1>10, SetsVendorMode DEF IsoMode
  <2> QED BY <1>10, <2>1, <2>2 DEF SetParameters
<1>11. ASSUME NEW w \in Handle, GetParameters(w) PROVE TypeOK'
  <2>1. wrapper[w].vendor \in Camera
    BY <1>11 DEF GetParameters, WrapperInv, ClientsAreWhole
  <2>2. copy' \in [Handle -> IsoMode]
    BY <1>11, <2>1 DEF GetParameters
  <2>3. held' \in [Handle -> 0..MaxStrings]
    BY <1>11 DEF GetParameters
  <2>4. called' \in Camera \cup {NoCamera}
    BY CallTyped
  <2> QED BY <1>11, <2>2, <2>3, <2>4 DEF GetParameters
<1>12. ASSUME NEW w \in Handle, PutParameters(w) PROVE TypeOK'
  BY <1>12 DEF PutParameters, IsoMode, VendorIso
<1>13. CASE UNCHANGED vars
  BY <1>13 DEF vars
<1> QED BY <1>1, <1>2, <1>3, <1>4, <1>5, <1>6, <1>7, <1>8, <1>9, <1>10, <1>11,
           <1>12, <1>13 DEF Next

LEMMA WrapperStep == TypeOK /\ WrapperInv /\ [Next]_vars => WrapperInv'
<1> SUFFICES ASSUME TypeOK, WrapperInv, [Next]_vars PROVE WrapperInv'
  OBVIOUS
<1> USE DEF TypeOK, Idle, Opening, OpenSoFar, ClientsAreWhole, OpenIsOwned,
            WrapperInv, heap, params
<1>1. ASSUME NEW id \in Id, NEW w \in Handle, Open(id, w)
      PROVE  WrapperInv'
  BY <1>1 DEF Open
<1>2. CASE OpenChecks
  <2>1. OpenSoFar'
    <3>1. CASE At("check", "alloc")
      BY <1>2, <3>1 DEF OpenChecks, At
    <3>2. CASE call' = [call EXCEPT !.at = "none", !.id = NoCamera]
      BY <1>2, <3>2 DEF OpenChecks
    <3> QED BY <1>2, <3>1, <3>2 DEF OpenChecks
  <2>2. ClientsAreWhole'
    BY <1>2 DEF OpenChecks, At
  <2>3. OpenIsOwned'
    BY <1>2 DEF OpenChecks, At
  <2> QED BY <2>1, <2>2, <2>3
<1>3. CASE OpenAllocates
  <2>1. OpenSoFar'
    <3>1. CASE At("alloc", "vendor")
      <4> DEFINE new == [NoWrapper EXCEPT !.live = TRUE, !.id = call.id]
      <4>1. new.live /\ ~new.ops /\ new.id = call.id
        BY DEF NoWrapper
      <4>2. wrapper' = [wrapper EXCEPT ![call.w] = new] /\ client' = client
        BY <1>3, <3>1 DEF OpenAllocates, At
      <4>3. call'.w = call.w /\ call'.at = "vendor" /\ call'.id = call.id
        BY <3>1 DEF At
      <4> HIDE DEF new
      <4>4. wrapper'[call.w] = new /\ \A v \in client : wrapper'[v] = wrapper[v]
        BY <3>1, <4>2 DEF At
      <4> QED BY <3>1, <4>1, <4>2, <4>3, <4>4 DEF At
    <3>2. CASE At("alloc", "fail") /\ UNCHANGED wrapper
      BY <1>3, <3>2 DEF OpenAllocates, At
    <3> QED BY <1>3, <3>1, <3>2 DEF OpenAllocates
  <2>2. ClientsAreWhole'
    <3> HIDE DEF Id
    <3>1. /\ \A v \in Handle : v # call.w => wrapper'[v] = wrapper[v]
          /\ call'.w = call.w /\ call'.at # "none" /\ call.at # "none"
      BY <1>3 DEF OpenAllocates, At
    <3> QED BY <1>3, <3>1 DEF OpenAllocates
  <2>3. OpenIsOwned'
    BY <1>3 DEF OpenAllocates, At, NoWrapper
  <2> QED BY <2>1, <2>2, <2>3
<1>4. CASE OpenVendor
  <2>1. OpenSoFar'
    BY <1>4 DEF OpenVendor, At
  <2>2. ClientsAreWhole'
    BY <1>4 DEF OpenVendor, At
  <2>3. OpenIsOwned'
    BY <1>4 DEF OpenVendor, At
  <2> QED BY <2>1, <2>2, <2>3
<1>5. CASE OpenOps
  <2>1. OpenSoFar'
    <3>1. CASE call.at = "ops" /\ call' = [call EXCEPT !.at = "none", !.id = NoCamera]
      BY <1>5, <3>1 DEF OpenOps, At
    <3>2. CASE At("ops", "fail") /\ UNCHANGED <<wrapper, client>>
      BY <1>5, <3>2 DEF OpenOps, At
    <3> QED BY <1>5, <3>1, <3>2 DEF OpenOps
  <2>2. ClientsAreWhole'
    BY <1>5 DEF OpenOps, At
  <2>3. OpenIsOwned'
    BY <1>5 DEF OpenOps, At
  <2> QED BY <2>1, <2>2, <2>3
<1>6. CASE OpenFails
  <2>1. OpenSoFar'
    BY <1>6 DEF OpenFails, NoWrapper
  <2>2. ClientsAreWhole'
    BY <1>6 DEF OpenFails, NoWrapper
  <2>3. OpenIsOwned'
    BY <1>6 DEF OpenFails, NoWrapper
  <2> QED BY <2>1, <2>2, <2>3
<1>7. CASE AskModule
  BY <1>7 DEF AskModule
<1>8. ASSUME NEW w \in Handle, Close(w) PROVE WrapperInv'
  <2>1. OpenSoFar'
    BY <1>8 DEF Close, NoWrapper
  <2>2. ClientsAreWhole'
    BY <1>8 DEF Close, NoWrapper
  <2>3. OpenIsOwned'
    BY <1>8 DEF Close, NoWrapper
  <2> QED BY <2>1, <2>2, <2>3
<1>9. ASSUME NEW w \in Handle, NEW op \in Operation, Operate(w, op) PROVE WrapperInv'
  BY <1>9 DEF Operate
<1>10. ASSUME NEW w \in Handle, SetParameters(w) \/ GetParameters(w) \/ PutParameters(w)
       PROVE  WrapperInv'
  BY <1>10 DEF SetParameters, GetParameters, PutParameters
<1>11. CASE UNCHANGED vars
  BY <1>11 DEF vars
<1> QED BY <1>1, <1>2, <1>3, <1>4, <1>5, <1>6, <1>7, <1>8, <1>9, <1>10, <1>11 DEF Next

LEMMA CopiesStep == CameraIInv /\ [Next]_vars => CopiesAreVendors'
<1> SUFFICES ASSUME TypeOK, WrapperInv, CopiesAreVendors, [Next]_vars
             PROVE  CopiesAreVendors'
  BY DEF CameraIInv
<1> USE DEF TypeOK, CopiesAreVendors, heap, params
<1>1. ASSUME NEW id \in Id, NEW w \in Handle, Open(id, w)
      PROVE  CopiesAreVendors'
  BY <1>1 DEF Open
<1>2. CASE OpenChecks \/ OpenAllocates \/ OpenVendor \/ OpenOps \/ OpenFails \/ AskModule
  BY <1>2 DEF OpenChecks, OpenAllocates, OpenVendor, OpenOps, OpenFails, AskModule
<1>3. ASSUME NEW w \in Handle, Close(w) \/ PutParameters(w) PROVE CopiesAreVendors'
  BY <1>3 DEF Close, PutParameters, VendorIso
<1>4. ASSUME NEW w \in Handle, NEW op \in Operation, Operate(w, op)
      PROVE  CopiesAreVendors'
  BY <1>4 DEF Operate, VendorCall
<1>5. ASSUME NEW w \in Handle, SetParameters(w) PROVE CopiesAreVendors'
  BY <1>5, SetsVendorMode DEF SetParameters, VendorCall
<1>6. ASSUME NEW w \in Handle, GetParameters(w) PROVE CopiesAreVendors'
  <2>1. wrapper[w].vendor \in Camera
    BY <1>6 DEF GetParameters, WrapperInv, ClientsAreWhole
  <2> QED BY <1>6, <2>1 DEF GetParameters, VendorCall
<1>7. CASE UNCHANGED vars
  BY <1>7 DEF vars
<1> QED BY <1>1, <1>2, <1>3, <1>4, <1>5, <1>6, <1>7 DEF Next

-----------------------------------------------------------------------------
(* The theorems. *)

\* The three parts hold together: the types rest on the wrappers being whole,
\* the modes on the types (CameraWrapper.cpp's operations, one step each).
THEOREM CameraCorrect == Spec => []CameraIInv
<1>1. CameraIInv /\ [Next]_vars => CameraIInv'
  BY TypeStep, WrapperStep, CopiesStep DEF CameraIInv
<1> QED BY InitHolds, <1>1, PTL DEF Spec

\* Types hold; the wrapper never keeps an id past the one it lets through
\* unchecked, nor a vendor device the vendor does not have (TypeOK of
\* CameraWrapper.cpp's variables).
THEOREM TypeCorrect == Spec => []TypeOK
<1>1. CameraIInv => TypeOK
  BY DEF CameraIInv
<1> QED BY CameraCorrect, <1>1, PTL

\* Whatever opens failed and at which step, between two opens the wrappers are
\* the service's and the open cameras theirs, or were given up for want of
\* memory (camera_device_open and camera_device_close).
THEOREM NothingIsStranded == Spec => []NothingStranded
<1>1. CameraIInv => NothingStranded
  <2> SUFFICES ASSUME TypeOK, WrapperInv, Idle PROVE NothingStranded
    BY DEF CameraIInv, NothingStranded
  <2>1. \A w \in Handle : (wrapper[w].live <=> w \in client)
                          /\ (wrapper[w].ops <=> w \in client)
    BY DEF WrapperInv, ClientsAreWhole, Opening
  <2>2. \A w \in Handle : wrapper[w].live \in BOOLEAN /\ wrapper[w].ops \in BOOLEAN
    BY DEF TypeOK
  <2>3. \A w \in Handle : wrapper[w].live = (w \in client)
                          /\ wrapper[w].ops = (w \in client)
    BY <2>1, <2>2
  <2>4. vendorOpen = {wrapper[w].id : w \in client} \cup stranded
    BY DEF WrapperInv, ClientsAreWhole, OpenIsOwned, Idle
  <2> QED BY <2>3, <2>4 DEF WrapperInv, ClientsAreWhole, NothingStranded
<1> QED BY CameraCorrect, <1>1, PTL

\* The vendor gets names of iso modes that it knows, whichever way the client
\* came by them, and is called for open cameras only, whatever open is under way
\* (camera_fixup_setparams and the operations of CameraWrapper.cpp).
THEOREM VendorGetsItsOwn == Spec => VendorIsSpared
<1>1. CameraIInv => \A c \in Camera : iso[c] \in VendorIso
  BY DEF CameraIInv, CopiesAreVendors
<1>2. CameraIInv /\ [Next]_vars => [called' # called => called' \in vendorOpen]_vars
  BY CallsAreOpen DEF CameraIInv
<1> QED BY CameraCorrect, <1>1, <1>2, PTL DEF Spec, VendorIsSpared

=============================================================================
