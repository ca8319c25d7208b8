------------------------- MODULE StoreDriversProofs --------------------------
(***************************************************************************)
(* Put and Copy are atomic on all three drivers, for any number of writers,*)
(* names and contents, as long as SFTP writers do not write one name at    *)
(* the same time; and unless a writer died they leave nothing behind.      *)
(***************************************************************************)
EXTENDS StoreDrivers, TLAPS

SftpAlone == "sftp" \notin Together

TypeInv ==
    /\ server \in Servers
    /\ files \in [Names -> [Slots -> Contents \union {None, Torn}]]
    /\ put \in [Writers -> Put]
    /\ removed \in BOOLEAN

(* What is being written is whole, and so is what is in place. *)
Whole ==
    /\ \A w \in Writers : ~At(w, "idle") => put[w].content \in Contents
    /\ \A n \in Names : Object(n) # Torn

(* A writer's temporary file is beside the object, its descriptor on it    *)
(* while it writes, with nobody else's bytes, and afterwards it holds the  *)
(* content written.                                                        *)
Own(w) ==
    /\ HasTemp(w) => put[w].slot # 0
    /\ At(w, "write") => /\ put[w].fd = put[w].slot
                         /\ files[put[w].name][put[w].slot] = Torn
    /\ ~At(w, "write") => put[w].fd = Gone
    /\ At(w, "rename") \/ At(w, "plain") =>
           files[put[w].name][put[w].slot] = put[w].content
    /\ Is("s3") => At(w, "idle") \/ At(w, "store")
    /\ ~Is("s3") => ~At(w, "store")
OwnTemp == \A w \in Writers : Own(w)

(* Temporary files are not shared; with SFTP names are not either. *)
Separate(w, v) ==
    put[w].name = put[v].name =>
        /\ HasTemp(w) /\ HasTemp(v) => put[w].slot # put[v].slot
        /\ Is("sftp") => At(w, "idle") \/ At(v, "idle")
Apart == \A w, v \in Writers : w # v => Separate(w, v)

DInv == TypeInv /\ Whole /\ OwnTemp /\ Apart

-----------------------------------------------------------------------------
(* Moving a file nobody has open, or removing one, leaves every put alone. *)
LEMMA NothingMoved ==
    ASSUME NEW p \in [Writers -> Put], NEW n, NEW from, NEW to,
           \A w \in Writers : p[w].name = n => p[w].fd # from /\ (p[w].fd = to => to = Gone)
    PROVE  Moved(p, n, from, to) = p
<1>1. ASSUME NEW w \in Writers
      PROVE  (IF p[w].name # n THEN p[w]
              ELSE [p[w] EXCEPT !.fd = IF @ = from THEN to ELSE IF @ = to THEN Gone ELSE @]) = p[w]
  BY DEF Put
<1> QED BY <1>1 DEF Moved

(* What Init sets up satisfies the invariant. *)
LEMMA IdleIsPut == Idle \in Put /\ Idle.pc = "idle" /\ Idle.fd = Gone
BY DriverAssumption DEF Idle, Put, Slots, Gone

LEMMA ThreeDrivers ==
    ASSUME server \in Servers
    PROVE  Is("dir") \/ Is("sftp") \/ Is("s3")
<1>1. server \in [driver : Drivers, posix : Posix, rooted : Rooted]
  BY Zenon DEF Servers
<1> QED BY <1>1, DriverAssumption DEF Is

LEMMA InitDInv == Init => DInv
<1> SUFFICES ASSUME Init PROVE DInv OBVIOUS
<1>1. TypeInv
  <2>1. put \in [Writers -> Put]
    BY IdleIsPut, Zenon DEF Init
  <2>2. files \in [Names -> [Slots -> Contents \union {None, Torn}]]
    BY Zenon DEF Init
  <2> QED BY <2>1, <2>2 DEF Init, TypeInv
<1>2. \A w \in Writers : put[w].pc = "idle" /\ put[w].fd = Gone
  BY IdleIsPut DEF Init
<1>3. \A n \in Names : Object(n) = None
  BY DriverAssumption DEF Init, Object, Slots
<1> QED BY <1>1, <1>2, <1>3, DriverAssumption DEF DInv, Whole, OwnTemp, Own, Apart, Separate, HasTemp, At

-----------------------------------------------------------------------------
(* The invariant is kept by every action.  A step that ends a put frees    *)
(* its temporary name; one that opens a file takes a name nobody has.      *)
LEMMA Returned ==
    ASSUME TypeInv, NEW w \in Writers
    PROVE  /\ Returns(w) \in [Writers -> Put]
           /\ Returns(w)[w] = Idle
           /\ \A v \in Writers : v # w => Returns(w)[v] = put[v]
BY IdleIsPut DEF TypeInv, Returns

(* What a step owes to the writers that do not take it. *)
LEMMA OthersOwn ==
    ASSUME DInv, NEW v \in Writers, put'[v] = put[v], server' = server,
           HasTemp(v) => files'[put[v].name][put[v].slot] = files[put[v].name][put[v].slot]
    PROVE  Own(v)'
<1>1. Own(v)
  BY DEF DInv, OwnTemp
<1> QED BY <1>1 DEF Own, HasTemp, At, Is

LEMMA OthersApart ==
    ASSUME DInv, NEW w \in Writers, server' = server,
           \A v \in Writers : v # w => put'[v] = put[v],
           \A v \in Writers : v # w => Separate(w, v)' /\ Separate(v, w)'
    PROVE  Apart'
<1>1. ASSUME NEW u \in Writers, NEW v \in Writers, u # v, u # w, v # w
      PROVE  Separate(u, v)'
  BY <1>1 DEF DInv, Apart, Separate, HasTemp, At, Is
<1> QED BY <1>1 DEF Apart

LEMMA BeginKeeps ==
    ASSUME SftpAlone, DInv, NEW w \in Writers, NEW n \in Names, NEW m \in Contents,
           Begin(w, n, m)
    PROVE  DInv'
<1> DEFINE new == [Idle EXCEPT !.pc = IF Is("s3") THEN "store" ELSE "create",
                               !.name = n, !.content = m]
<1>1. new \in Put /\ new.pc = (IF Is("s3") THEN "store" ELSE "create") /\ new.name = n
      /\ new.content = m /\ new.fd = Gone
  BY IdleIsPut DEF Put, Is
<1>2. /\ put' = [put EXCEPT ![w] = new] /\ UNCHANGED <<server, files, removed>>
      /\ At(w, "idle") /\ (server.driver \in Together \/ Busy(n) = {})
  BY DEF Begin
<1> HIDE DEF new
<1>3. TypeInv'
  BY <1>1, <1>2 DEF DInv, TypeInv
<1>4. put'[w] = new /\ \A v \in Writers : v # w => put'[v] = put[v]
  BY <1>2 DEF DInv, TypeInv
<1>5. Whole'
  BY <1>1, <1>2, <1>4 DEF DInv, Whole, At, Object
<1>6. OwnTemp'
  BY <1>1, <1>2, <1>4 DEF DInv, OwnTemp, Own, At, HasTemp, Is
<1>7. Apart'
  <2>1. Is("sftp") => \A v \in Writers : put[v].name = n => At(v, "idle")
    BY <1>2 DEF SftpAlone, Is, Busy
  <2> QED BY <1>1, <1>2, <1>4, <2>1 DEF DInv, Apart, Separate, At, HasTemp, Is
<1> QED BY <1>3, <1>5, <1>6, <1>7 DEF DInv

LEMMA CreatedKeeps ==
    ASSUME DInv, NEW w \in Writers, NEW t \in Slots, t # 0, At(w, "create"), Created(w, t),
           Is("dir") => files[put[w].name][t] = None
    PROVE  DInv'
<1> DEFINE n == put[w].name
<1>1. /\ files' = [files EXCEPT ![n][t] = Torn] /\ UNCHANGED <<server, removed>>
      /\ put' = [put EXCEPT ![w].pc = "write", ![w].slot = t, ![w].fd = t]
  BY DEF Created
<1>2. /\ put'[w].pc = "write" /\ put'[w].slot = t /\ put'[w].fd = t
      /\ put'[w].name = n /\ put'[w].content = put[w].content
      /\ \A v \in Writers : v # w => put'[v] = put[v]
  BY <1>1 DEF DInv, TypeInv, Put
<1>3. TypeInv'
  <2>1. [put[w] EXCEPT !.pc = "write", !.slot = t, !.fd = t] \in Put
    BY DEF DInv, TypeInv, Put
  <2>2. put' = [put EXCEPT ![w] = [put[w] EXCEPT !.pc = "write", !.slot = t, !.fd = t]]
    BY <1>1 DEF DInv, TypeInv, Put
  <2>3. put' \in [Writers -> Put]
    BY <2>1, <2>2 DEF DInv, TypeInv
  <2>4. n \in Names
    BY DEF DInv, TypeInv, Put
  <2>5. files' \in [Names -> [Slots -> Contents \union {None, Torn}]]
    BY <1>1, <2>4 DEF DInv, TypeInv
  <2> QED BY <1>1, <2>3, <2>5 DEF DInv, TypeInv
<1>4. n \in Names /\ files'[n][t] = Torn
      /\ \A x \in Names, s \in Slots : (x # n \/ s # t) => files'[x][s] = files[x][s]
  BY <1>1 DEF DInv, TypeInv, Put
<1> HIDE DEF n
<1>5. Whole'
  <2>1. \A x \in Names : Object(x)' = Object(x)
    BY <1>4, DriverAssumption DEF Object, Slots
  <2> QED BY <1>2, <2>1 DEF DInv, Whole, At
<1>6. ~Is("s3") /\ (~Is("dir") => Is("sftp"))
  <2>1. ~Is("s3")
    BY DEF DInv, OwnTemp, Own, At
  <2> QED BY <2>1, ThreeDrivers DEF DInv, TypeInv
<1>7. \A v \in Writers : v # w /\ HasTemp(v) => put[v].name # n \/ put[v].slot # t
  <2> SUFFICES ASSUME NEW v \in Writers, v # w, HasTemp(v), put[v].name = n, put[v].slot = t
               PROVE  FALSE
    OBVIOUS
  <2>1. Is("dir")
    BY <1>6 DEF DInv, Apart, Separate, HasTemp, At, n
  <2>2. files[n][t] # None
    BY DriverAssumption DEF DInv, OwnTemp, Own, HasTemp, At, Whole
  <2> QED BY <2>1, <2>2 DEF n
<1>8. OwnTemp'
  <2>1. Own(w)'
    BY <1>1, <1>2, <1>4, <1>6, DriverAssumption DEF Own, At, HasTemp, Is
  <2>2. ASSUME NEW v \in Writers, v # w  PROVE Own(v)'
    <3>1. put[v].name \in Names /\ put[v].slot \in Slots
      BY DEF DInv, TypeInv, Put
    <3>2. HasTemp(v) => files'[put[v].name][put[v].slot] = files[put[v].name][put[v].slot]
      BY <1>4, <1>7, <2>2, <3>1
    <3> QED BY <1>1, <1>2, <2>2, <3>2, OthersOwn
  <2> QED BY <2>1, <2>2 DEF OwnTemp
<1>9. Apart'
  <2>1. ASSUME NEW v \in Writers, v # w  PROVE Separate(w, v)' /\ Separate(v, w)'
    BY <1>1, <1>2, <1>7, <2>1 DEF DInv, Apart, Separate, At, HasTemp, Is, n
  <2> QED BY <1>2, <2>1, OthersApart DEF Created
<1> QED BY <1>3, <1>5, <1>8, <1>9 DEF DInv

(* A step that ends a put, without touching other temporary files and with *)
(* whole objects, keeps the invariant.                                     *)
LEMMA EndKeeps ==
    ASSUME DInv, NEW w \in Writers, put' = Returns(w), server' = server, removed' \in BOOLEAN,
           files' \in [Names -> [Slots -> Contents \union {None, Torn}]],
           \A v \in Writers : v # w /\ HasTemp(v) =>
               files'[put[v].name][put[v].slot] = files[put[v].name][put[v].slot],
           \A n \in Names : files'[n][0] # Torn
    PROVE  DInv'
<1>1. put' \in [Writers -> Put] /\ put'[w] = Idle
      /\ \A v \in Writers : v # w => put'[v] = put[v]
  BY Returned DEF DInv
<1>2. TypeInv'
  BY <1>1 DEF DInv, TypeInv
<1>3. Whole'
  BY <1>1, IdleIsPut DEF DInv, Whole, At, Object
<1>4. OwnTemp'
  <2>1. Own(w)'
    BY <1>1, IdleIsPut DEF Own, At, HasTemp, Is
  <2>2. ASSUME NEW v \in Writers, v # w  PROVE Own(v)'
    BY <1>1, <2>2, OthersOwn
  <2> QED BY <2>1, <2>2 DEF OwnTemp
<1>5. Apart'
  <2>1. ASSUME NEW v \in Writers, v # w  PROVE Separate(w, v)' /\ Separate(v, w)'
    BY <1>1, <2>1, IdleIsPut DEF Separate, At, HasTemp, Is
  <2> QED BY <1>1, <2>1, OthersApart
<1> QED BY <1>2, <1>3, <1>4, <1>5 DEF DInv

(* Temporary names and the object's own are different places, and nobody   *)
(* but the writer is in the writer's.                                      *)
LEMMA Places ==
    ASSUME DInv, NEW w \in Writers
    PROVE  /\ put[w] \in Put /\ put[w].name \in Names /\ put[w].slot \in Slots /\ 0 \in Slots
           /\ Gone \notin Slots
           /\ \A v \in Writers : v # w /\ HasTemp(v) /\ HasTemp(w) =>
                  put[v].name # put[w].name \/ put[v].slot # put[w].slot
           /\ \A v \in Writers : HasTemp(v) => put[v].slot # 0
<1>1. put[w] \in Put
  BY DEF DInv, TypeInv
<1>2. 0 \in Slots /\ Gone \notin Slots
  BY DriverAssumption DEF Slots, Gone
<1> QED BY <1>1, <1>2 DEF DInv, Put, Apart, Separate, OwnTemp, Own

(* A put that fails removes its temporary file. *)
LEMMA CleanedKeeps ==
    ASSUME DInv, NEW w \in Writers, HasTemp(w), UNCHANGED <<server, removed>>,
           files' = [files EXCEPT ![put[w].name][put[w].slot] = None],
           put' = Unlinked(Returns(w), put[w].name, put[w].slot)
    PROVE  DInv' /\ put' = Returns(w) /\ \A n \in Names : files'[n][0] = files[n][0]
<1> DEFINE n == put[w].name
           s == put[w].slot
<1>1. /\ files' = [files EXCEPT ![n][s] = None] /\ UNCHANGED <<server, removed>>
      /\ put' = Unlinked(Returns(w), n, s) /\ HasTemp(w)
  OBVIOUS
<1>2. put' = Returns(w)
  <2>1. \A v \in Writers : Returns(w)[v].name = n => Returns(w)[v].fd # s
    BY <1>1, Places, Returned, IdleIsPut DEF DInv, OwnTemp, Own, HasTemp, At
  <2> QED BY <1>1, <2>1, Returned, NothingMoved DEF DInv, Unlinked
<1>3. n \in Names /\ s \in Slots /\ s # 0 /\ files'[n][s] = None
      /\ \A x \in Names, t \in Slots : (x # n \/ t # s) => files'[x][t] = files[x][t]
  BY <1>1, Places DEF DInv, TypeInv
<1>4. files' \in [Names -> [Slots -> Contents \union {None, Torn}]]
  BY <1>1, Places DEF DInv, TypeInv
<1> HIDE DEF n, s
<1>5. \A x \in Names : files'[x][0] = files[x][0]
  BY <1>3, Places
<1>6. \A v \in Writers : v # w /\ HasTemp(v) =>
          files'[put[v].name][put[v].slot] = files[put[v].name][put[v].slot]
  BY <1>1, <1>3, Places DEF n, s
<1>7. \A x \in Names : files'[x][0] # Torn
  BY <1>5 DEF DInv, Whole, Object
<1>8. DInv'
  BY <1>1, <1>2, <1>4, <1>6, <1>7, EndKeeps DEF DInv, TypeInv
<1> QED BY <1>2, <1>5, <1>8

(* The rename that ends a put puts the content written in place. *)
LEMMA InPlaceKeeps ==
    ASSUME DInv, NEW w \in Writers, At(w, "rename") \/ At(w, "plain"), InPlace(w)
    PROVE  /\ DInv' /\ put' = Returns(w)
           /\ files'[put[w].name][0] = put[w].content
           /\ \A n \in Names : n # put[w].name => files'[n][0] = files[n][0]
<1> DEFINE n == put[w].name
           s == put[w].slot
<1>1. /\ files' = [files EXCEPT ![n][0] = files[n][s], ![n][s] = None]
      /\ UNCHANGED <<server, removed>>
      /\ put' = Moved(Returns(w), n, s, 0) /\ HasTemp(w)
  BY DEF InPlace, HasTemp, At
<1>2. put' = Returns(w)
  <2>1. \A v \in Writers : Returns(w)[v].name = n =>
            Returns(w)[v].fd # s /\ (Returns(w)[v].fd = 0 => 0 = Gone)
    BY <1>1, Places, Returned, IdleIsPut DEF DInv, OwnTemp, Own, HasTemp, At
  <2>2. Moved(Returns(w), n, s, 0) = Returns(w)
    BY <2>1, Returned, NothingMoved DEF DInv
  <2> QED BY <1>1, <2>2
<1>3. n \in Names /\ s \in Slots /\ s # 0 /\ 0 \in Slots /\ files[n][s] = put[w].content
  BY <1>1, Places DEF DInv, OwnTemp, Own
<1>4. /\ files'[n][0] = files[n][s] /\ files'[n][s] = None
      /\ \A x \in Names, t \in Slots :
             x # n \/ (t # s /\ t # 0) => files'[x][t] = files[x][t]
  BY <1>1, <1>3 DEF DInv, TypeInv
<1>5. files' \in [Names -> [Slots -> Contents \union {None, Torn}]]
  BY <1>1, <1>3 DEF DInv, TypeInv
<1>6. put[w].content \in Contents
  BY DEF DInv, Whole, At
<1> HIDE DEF n, s
<1>7. \A x \in Names : x # n => files'[x][0] = files[x][0]
  BY <1>3, <1>4
<1>8. \A v \in Writers : v # w /\ HasTemp(v) =>
          files'[put[v].name][put[v].slot] = files[put[v].name][put[v].slot]
  <2> SUFFICES ASSUME NEW v \in Writers, v # w, HasTemp(v)
               PROVE  files'[put[v].name][put[v].slot] = files[put[v].name][put[v].slot]
    OBVIOUS
  <2>1. put[v].name # n \/ (put[v].slot # s /\ put[v].slot # 0)
    BY <1>1, Places DEF n, s
  <2>2. put[v].name \in Names /\ put[v].slot \in Slots
    BY Places
  <2> QED BY <1>4, <2>1, <2>2
<1>9. \A x \in Names : files'[x][0] # Torn
  BY <1>3, <1>4, <1>6, <1>7, DriverAssumption DEF DInv, Whole, Object
<1>10. DInv'
  BY <1>1, <1>2, <1>5, <1>8, <1>9, EndKeeps DEF DInv, TypeInv
<1> QED BY <1>2, <1>3, <1>4, <1>7, <1>10 DEF n

LEMMA StoreKeeps ==
    ASSUME DInv, NEW w \in Writers, Store(w)
    PROVE  /\ DInv' /\ put' = Returns(w)
           /\ files'[put[w].name][0] = put[w].content
           /\ \A n \in Names : n # put[w].name => files'[n][0] = files[n][0]
<1>1. /\ files' = [files EXCEPT ![put[w].name][0] = put[w].content]
      /\ put' = Returns(w) /\ UNCHANGED <<server, removed>> /\ At(w, "store")
  BY DEF Store
<1>2. put[w].content \in Contents /\ put[w].name \in Names /\ 0 \in Slots
  BY <1>1, Places DEF DInv, Whole, At
<1>3. /\ files' \in [Names -> [Slots -> Contents \union {None, Torn}]]
      /\ files'[put[w].name][0] = put[w].content
      /\ \A n \in Names : n # put[w].name => files'[n][0] = files[n][0]
      /\ \A n \in Names, t \in Slots : t # 0 => files'[n][t] = files[n][t]
  BY <1>1, <1>2 DEF DInv, TypeInv
<1>4. \A v \in Writers : HasTemp(v) =>
          files'[put[v].name][put[v].slot] = files[put[v].name][put[v].slot]
  BY <1>3, Places
<1>5. \A n \in Names : files'[n][0] # Torn
  BY <1>2, <1>3, DriverAssumption DEF DInv, Whole, Object
<1> QED BY <1>1, <1>3, <1>4, <1>5, EndKeeps DEF DInv, TypeInv

LEMMA QuitKeeps ==
    ASSUME DInv, NEW w \in Writers, put' = Returns(w), UNCHANGED <<server, files, removed>>
    PROVE  DInv'
BY EndKeeps DEF DInv, TypeInv, Whole, Object

LEMMA WriteKeeps ==
    ASSUME DInv, NEW w \in Writers, Write(w)
    PROVE  DInv' /\ \A n \in Names : files'[n][0] = files[n][0]
<1> DEFINE n == put[w].name
           s == put[w].slot
<1>1. /\ HasTemp(w) /\ At(w, "write") /\ put[w].fd = s /\ s # 0 /\ s # Gone
      /\ put' = [put EXCEPT ![w].pc = "rename", ![w].fd = Gone]
      /\ UNCHANGED <<server, removed>>
  BY Places DEF Write, HasTemp, At, DInv, OwnTemp, Own
<1>2. n \in Names /\ s \in Slots /\ put[w].content \in Contents /\ files[n][s] = Torn
  BY <1>1, Places DEF DInv, Whole, OwnTemp, Own, At
<1>3. files' = [files EXCEPT ![n][s] = put[w].content]
  BY <1>1, <1>2 DEF Write
<1>4. /\ files' \in [Names -> [Slots -> Contents \union {None, Torn}]]
      /\ files'[n][s] = put[w].content
      /\ \A x \in Names, t \in Slots : (x # n \/ t # s) => files'[x][t] = files[x][t]
  BY <1>2, <1>3 DEF DInv, TypeInv
<1>5. /\ put'[w].pc = "rename" /\ put'[w].slot = s /\ put'[w].fd = Gone
      /\ put'[w].name = n /\ put'[w].content = put[w].content
      /\ \A v \in Writers : v # w => put'[v] = put[v]
  BY <1>1 DEF DInv, TypeInv, Put
<1>6. put' \in [Writers -> Put]
  <2>1. [put[w] EXCEPT !.pc = "rename", !.fd = Gone] \in Put
    BY DEF DInv, TypeInv, Put
  <2> QED BY <1>1, <2>1 DEF DInv, TypeInv
<1> HIDE DEF n, s
<1>7. \A x \in Names : files'[x][0] = files[x][0]
  BY <1>1, <1>4, Places
<1>8. Whole'
  BY <1>2, <1>5, <1>7 DEF DInv, Whole, Object, At
<1>9. OwnTemp'
  <2>1. ~Is("s3")
    BY <1>1 DEF DInv, OwnTemp, Own, At
  <2>2. Own(w)'
    BY <1>1, <1>4, <1>5, <2>1 DEF Own, At, HasTemp, Is
  <2>3. ASSUME NEW v \in Writers, v # w  PROVE Own(v)'
    <3>1. HasTemp(v) => files'[put[v].name][put[v].slot] = files[put[v].name][put[v].slot]
      BY <1>1, <1>4, <2>3, Places DEF n, s
    <3> QED BY <1>1, <1>5, <2>3, <3>1, OthersOwn
  <2> QED BY <2>2, <2>3 DEF OwnTemp
<1>10. Apart'
  <2>1. ASSUME NEW v \in Writers, v # w  PROVE Separate(w, v)' /\ Separate(v, w)'
    BY <1>1, <1>5, <2>1 DEF DInv, Apart, Separate, HasTemp, At, Is, n, s
  <2> QED BY <1>1, <1>5, <2>1, OthersApart
<1>11. TypeInv'
  BY <1>1, <1>4, <1>6 DEF DInv, TypeInv
<1> QED BY <1>7, <1>8, <1>9, <1>10, <1>11 DEF DInv

(* The object goes, the put and its temporary file stay. *)
LEMMA RefusedKeeps ==
    ASSUME DInv, NEW w \in Writers, RenameRefused(w)
    PROVE  /\ DInv' /\ put' = [put EXCEPT ![w].pc = "plain"]
           /\ files'[put[w].name][0] = None
           /\ \A n \in Names : n # put[w].name => files'[n][0] = files[n][0]
<1> DEFINE n == put[w].name
           new == [put EXCEPT ![w].pc = "plain"]
<1>1. /\ files' = [files EXCEPT ![n][0] = None] /\ server' = server /\ Is("sftp")
      /\ put' = Unlinked(new, n, 0) /\ At(w, "rename") /\ HasTemp(w)
      /\ removed' = IF Object(n) = None THEN removed ELSE ~removed
  BY DEF RenameRefused, HasTemp, At
<1>2. /\ new \in [Writers -> Put] /\ \A v \in Writers : v # w => new[v] = put[v]
      /\ new[w].pc = "plain" /\ new[w].slot = put[w].slot /\ new[w].fd = put[w].fd
      /\ new[w].name = n /\ new[w].content = put[w].content
  <2>1. [put[w] EXCEPT !.pc = "plain"] \in Put
    BY DEF DInv, TypeInv, Put
  <2> QED BY <2>1 DEF DInv, TypeInv, Put
<1> HIDE DEF new
<1>3. put' = new
  <2>1. \A v \in Writers : new[v].name = n => new[v].fd # 0
    BY <1>1, <1>2, Places DEF DInv, OwnTemp, Own, HasTemp, At
  <2> QED BY <1>1, <1>2, <2>1, NothingMoved DEF Unlinked
<1>4. n \in Names /\ 0 \in Slots
  BY Places
<1>5. /\ files' \in [Names -> [Slots -> Contents \union {None, Torn}]]
      /\ files'[n][0] = None
      /\ \A x \in Names, t \in Slots : x # n \/ t # 0 => files'[x][t] = files[x][t]
  BY <1>1, <1>4 DEF DInv, TypeInv
<1>6. \A v \in Writers : HasTemp(v) =>
          files'[put[v].name][put[v].slot] = files[put[v].name][put[v].slot]
  <2>1. \A v \in Writers : put[v].name \in Names /\ put[v].slot \in Slots
    BY Places
  <2> QED BY <1>5, <2>1, Places
<1>7. TypeInv'
  BY <1>1, <1>2, <1>3, <1>5 DEF DInv, TypeInv
<1>8. Whole'
  <2>1. \A x \in Names : files'[x][0] # Torn
    BY <1>4, <1>5, DriverAssumption DEF DInv, Whole, Object
  <2> QED BY <1>1, <1>2, <1>3, <2>1 DEF DInv, Whole, Object, At
<1>9. OwnTemp'
  <2>1. Own(w)'
    <3>1. Own(w)
      BY DEF DInv, OwnTemp
    <3> QED BY <1>1, <1>2, <1>3, <1>6, <3>1 DEF Own, At, HasTemp, Is
  <2>2. ASSUME NEW v \in Writers, v # w  PROVE Own(v)'
    BY <1>1, <1>2, <1>3, <1>6, <2>2, OthersOwn
  <2> QED BY <2>1, <2>2 DEF OwnTemp
<1>10. Apart'
  <2>1. ASSUME NEW v \in Writers, v # w  PROVE Separate(w, v)' /\ Separate(v, w)'
    BY <1>1, <1>2, <1>3, <2>1 DEF DInv, Apart, Separate, HasTemp, At, Is
  <2> QED BY <1>1, <1>2, <1>3, <2>1, OthersApart
<1> QED BY <1>3, <1>5, <1>4, <1>7, <1>8, <1>9, <1>10 DEF DInv, new

LEMMA RemovalFailsKeeps ==
    ASSUME DInv, NEW w \in Writers, RemovalFails(w)
    PROVE  DInv'
<1>1. /\ put' = [put EXCEPT ![w].pc = "plain"] /\ UNCHANGED <<server, files, removed>>
      /\ At(w, "rename") /\ Is("sftp")
  BY DEF RemovalFails
<1>2. /\ put' \in [Writers -> Put] /\ \A v \in Writers : v # w => put'[v] = put[v]
      /\ put'[w].pc = "plain" /\ put'[w].slot = put[w].slot /\ put'[w].fd = put[w].fd
      /\ put'[w].name = put[w].name /\ put'[w].content = put[w].content
  <2>1. [put[w] EXCEPT !.pc = "plain"] \in Put
    BY DEF DInv, TypeInv, Put
  <2> QED BY <1>1, <2>1 DEF DInv, TypeInv, Put
<1>3. TypeInv' /\ Whole'
  BY <1>1, <1>2 DEF DInv, TypeInv, Whole, Object, At
<1>4. OwnTemp'
  <2>1. Own(w)'
    <3>1. Own(w)
      BY DEF DInv, OwnTemp
    <3> QED BY <1>1, <1>2, <3>1 DEF Own, At, HasTemp, Is
  <2>2. ASSUME NEW v \in Writers, v # w  PROVE Own(v)'
    BY <1>1, <1>2, <2>2, OthersOwn
  <2> QED BY <2>1, <2>2 DEF OwnTemp
<1>5. Apart'
  <2>1. ASSUME NEW v \in Writers, v # w  PROVE Separate(w, v)' /\ Separate(v, w)'
    BY <1>1, <1>2, <2>1 DEF DInv, Apart, Separate, HasTemp, At, Is
  <2> QED BY <1>1, <1>2, <2>1, OthersApart
<1> QED BY <1>3, <1>4, <1>5 DEF DInv

LEMMA DeleteKeeps ==
    ASSUME DInv, NEW n \in Names, Delete(n)
    PROVE  /\ DInv' /\ put' = put /\ files'[n][0] = None
           /\ \A x \in Names : x # n => files'[x][0] = files[x][0]
<1>1. /\ files' = [files EXCEPT ![n][0] = None] /\ server' = server
      /\ put' = Unlinked(put, n, 0) /\ removed' = ~removed
  BY DEF Delete
<1>2. put' = put
  <2>1. \A v \in Writers : put[v].name = n => put[v].fd # 0
    BY Places DEF DInv, OwnTemp, Own, HasTemp, At
  <2> QED BY <1>1, <2>1, NothingMoved DEF Unlinked, DInv, TypeInv
<1>3. /\ files' \in [Names -> [Slots -> Contents \union {None, Torn}]]
      /\ files'[n][0] = None
      /\ \A x \in Names, t \in Slots : x # n \/ t # 0 => files'[x][t] = files[x][t]
  <2>1. 0 \in Slots
    BY DriverAssumption DEF Slots
  <2> QED BY <1>1, <2>1 DEF DInv, TypeInv
<1>4. \A v \in Writers : HasTemp(v) =>
          files'[put[v].name][put[v].slot] = files[put[v].name][put[v].slot]
  <2>1. \A v \in Writers : put[v].name \in Names /\ put[v].slot \in Slots
    BY Places
  <2> QED BY <1>3, <2>1, Places
<1>5. \A x \in Names : x # n => files'[x][0] = files[x][0]
  <2>1. 0 \in Slots
    BY DriverAssumption DEF Slots
  <2> QED BY <1>3, <2>1
<1>6. TypeInv' /\ Whole'
  BY <1>1, <1>2, <1>3, <1>5, DriverAssumption DEF DInv, TypeInv, Whole, Object, At
<1>7. OwnTemp'
  BY <1>1, <1>2, <1>4, OthersOwn DEF OwnTemp
<1>8. Apart'
  BY <1>1, <1>2 DEF DInv, Apart, Separate, HasTemp, At, Is
<1> QED BY <1>2, <1>3, <1>5, <1>6, <1>7, <1>8 DEF DInv

(* Copy reads a whole object, so every action keeps the invariant. *)
LEMMA CopyIsWhole ==
    ASSUME DInv, NEW w \in Writers, BeginCopy(w)
    PROVE  \E n \in Names, m \in Contents : Begin(w, n, m)
<1>1. PICK src \in Names, dst \in Names : Object(src) # None /\ Begin(w, dst, Object(src))
  BY DEF BeginCopy
<1>2. Object(src) \in Contents
  <2>1. files[src][0] \in Contents \union {None, Torn}
    BY DriverAssumption DEF DInv, TypeInv, Slots
  <2> QED BY <1>1, <2>1 DEF DInv, Whole, Object
<1> QED BY <1>1, <1>2

LEMMA CreateIsCreated ==
    ASSUME DInv, NEW w \in Writers, CreateTemp(w) \/ Create(w)
    PROVE  DInv' /\ \E t \in Slots \ {0} : At(w, "create") /\ Created(w, t)
<1>1. CASE CreateTemp(w)
  <2>1. PICK t \in Slots \ {0} : files[put[w].name][t] = None /\ Created(w, t)
    BY <1>1 DEF CreateTemp
  <2>2. t \in Slots /\ t # 0 /\ At(w, "create")
    BY <1>1 DEF CreateTemp
  <2>3. DInv'
    BY <2>1, <2>2, CreatedKeeps
  <2> QED BY <2>1, <2>2, <2>3
<1>2. CASE Create(w)
  <2>1. At(w, "create") /\ Created(w, 1) /\ ~Is("dir")
    BY <1>2 DEF Create, CreateFixed, Is
  <2>2. 1 \in Slots /\ 1 # 0
    BY DriverAssumption DEF Slots
  <2>3. DInv'
    BY <2>1, <2>2, CreatedKeeps
  <2> QED BY <2>1, <2>2, <2>3
<1> QED BY <1>1, <1>2

-----------------------------------------------------------------------------
(* Each step is a step of the object store, or none. *)
objects == [n \in Names |-> Object(n)]
asked == [w \in Writers |->
             IF At(w, "idle") THEN None ELSE <<put[w].name, put[w].content>>]

LEMMA Asked ==
    ASSUME DInv, NEW w \in Writers, \A v \in Writers : v # w => put'[v] = put[v]
    PROVE  \A x : (IF At(w, "idle") THEN None ELSE <<put[w].name, put[w].content>>)' = x =>
                  asked' = [asked EXCEPT ![w] = x]
BY DEF asked, At

LEMMA ReturnAsks ==
    ASSUME DInv, NEW w \in Writers, put' = Returns(w)
    PROVE  asked' = [asked EXCEPT ![w] = None]
<1>1. put'[w] = Idle /\ \A v \in Writers : v # w => put'[v] = put[v]
  BY Returned DEF DInv
<1> QED BY <1>1, Asked, IdleIsPut DEF At

LEMMA SameObjects ==
    ASSUME \A n \in Names : files'[n][0] = files[n][0]
    PROVE  objects' = objects
BY DEF objects, Object

LEMMA NewObject ==
    ASSUME NEW n \in Names, NEW m, files'[n][0] = m,
           \A x \in Names : x # n => files'[x][0] = files[x][0]
    PROVE  objects' = [objects EXCEPT ![n] = m]
BY DEF objects, Object

LEMMA InitRefines == Init => OS!Init
<1> SUFFICES ASSUME Init PROVE OS!Init OBVIOUS
<1>1. \A n \in Names : Object(n) = None
  BY DriverAssumption DEF Init, Object, Slots
<1>2. \A w \in Writers : At(w, "idle")
  BY IdleIsPut DEF Init, At
<1> QED BY <1>1, <1>2 DEF Init, OS!Init

LEMMA BeginRefines ==
    ASSUME DInv, NEW w \in Writers, NEW n \in Names, NEW m \in Contents, Begin(w, n, m)
    PROVE  OS!Ask(w)
<1>1. /\ put' = [put EXCEPT ![w] = [Idle EXCEPT !.pc = IF Is("s3") THEN "store" ELSE "create",
                                                !.name = n, !.content = m]]
      /\ UNCHANGED <<files, removed>> /\ At(w, "idle")
  BY DEF Begin
<1>2. /\ put'[w].pc # "idle" /\ put'[w].name = n /\ put'[w].content = m
      /\ \A v \in Writers : v # w => put'[v] = put[v]
  BY <1>1, IdleIsPut DEF DInv, TypeInv, Put
<1>3. asked' = [asked EXCEPT ![w] = <<n, m>>] /\ asked[w] = None
  BY <1>1, <1>2, Asked DEF At, asked
<1>4. objects' = objects
  BY <1>1, SameObjects
<1> QED BY <1>1, <1>3, <1>4 DEF OS!Ask, objects, asked

LEMMA EffectRefines ==
    ASSUME DInv, NEW w \in Writers, ~At(w, "idle"), put' = Returns(w), removed' = removed,
           files'[put[w].name][0] = put[w].content,
           \A n \in Names : n # put[w].name => files'[n][0] = files[n][0]
    PROVE  OS!TakeEffect(w)
<1>1. asked[w] = <<put[w].name, put[w].content>> /\ asked' = [asked EXCEPT ![w] = None]
  BY ReturnAsks DEF asked
<1>2. objects' = [objects EXCEPT ![put[w].name] = put[w].content]
  BY Places, NewObject
<1>3. asked[w] # None
  BY <1>1, Places, DriverAssumption DEF DInv, Whole
<1> QED BY <1>1, <1>2, <1>3 DEF OS!TakeEffect, objects, asked

LEMMA GivesUpRefines ==
    ASSUME DInv, NEW w \in Writers, ~At(w, "idle"), put' = Returns(w), removed' = removed,
           \A n \in Names : files'[n][0] = files[n][0]
    PROVE  OS!GiveUp(w)
<1>1. asked[w] # None
  BY Places, DriverAssumption DEF asked, DInv, Whole
<1>2. asked' = [asked EXCEPT ![w] = None] /\ objects' = objects
  BY ReturnAsks, SameObjects
<1> QED BY <1>1, <1>2 DEF OS!GiveUp, objects, asked

LEMMA RemoveRefines ==
    ASSUME NEW n \in Names, removed' = ~removed, asked' = asked, files'[n][0] = None,
           \A x \in Names : x # n => files'[x][0] = files[x][0]
    PROVE  OS!Remove(n)
<1>1. objects' = [objects EXCEPT ![n] = None]
  BY NewObject
<1> QED BY <1>1 DEF OS!Remove, objects, asked

LEMMA CreateRefines ==
    ASSUME DInv, NEW w \in Writers, CreateTemp(w) \/ Create(w)
    PROVE  UNCHANGED OS!vars
<1>1. PICK t \in Slots \ {0} : At(w, "create") /\ Created(w, t) /\ DInv'
  BY CreateIsCreated
<1>2. /\ files' = [files EXCEPT ![put[w].name][t] = Torn] /\ UNCHANGED removed
      /\ put' = [put EXCEPT ![w].pc = "write", ![w].slot = t, ![w].fd = t]
  BY <1>1 DEF Created
<1>3. \A n \in Names : files'[n][0] = files[n][0]
  BY <1>1, <1>2, Places DEF DInv, TypeInv
<1>4. /\ put'[w].pc = "write" /\ put'[w].name = put[w].name /\ put'[w].content = put[w].content
      /\ \A v \in Writers : v # w => put'[v] = put[v]
  BY <1>2 DEF DInv, TypeInv, Put
<1>5. asked' = asked
  BY <1>1, <1>4 DEF asked, At
<1>6. objects' = objects
  BY <1>3, SameObjects
<1> QED BY <1>2, <1>5, <1>6 DEF OS!vars, objects, asked

LEMMA WriteRefines ==
    ASSUME DInv, NEW w \in Writers, Write(w)
    PROVE  UNCHANGED OS!vars
<1>1. /\ UNCHANGED removed /\ At(w, "write")
      /\ put' = [put EXCEPT ![w].pc = "rename", ![w].fd = Gone]
  BY DEF Write
<1>2. /\ put'[w].pc = "rename" /\ put'[w].name = put[w].name /\ put'[w].content = put[w].content
      /\ \A v \in Writers : v # w => put'[v] = put[v]
      /\ put[w].pc # "idle"
  BY <1>1 DEF DInv, TypeInv, Put, At
<1>3. asked' = asked
  BY <1>2 DEF asked, At
<1>4. objects' = objects
  BY WriteKeeps, SameObjects
<1> QED BY <1>1, <1>3, <1>4 DEF OS!vars, objects, asked

LEMMA RefusedRefines ==
    ASSUME DInv, NEW w \in Writers, RenameRefused(w)
    PROVE  UNCHANGED OS!vars \/ \E n \in Names : OS!Remove(n)
<1>1. /\ put' = [put EXCEPT ![w].pc = "plain"] /\ At(w, "rename")
      /\ removed' = (IF Object(put[w].name) = None THEN removed ELSE ~removed)
      /\ files'[put[w].name][0] = None
      /\ \A n \in Names : n # put[w].name => files'[n][0] = files[n][0]
  BY RefusedKeeps DEF RenameRefused
<1>2. /\ put'[w].pc = "plain" /\ put'[w].name = put[w].name /\ put'[w].content = put[w].content
      /\ \A v \in Writers : v # w => put'[v] = put[v]
  BY <1>1 DEF DInv, TypeInv, Put
<1>3. asked' = asked
  BY <1>1, <1>2 DEF asked, At
<1>4. put[w].name \in Names
  BY Places
<1>5. CASE Object(put[w].name) = None
  <2>1. objects' = objects
    BY <1>1, <1>5, SameObjects DEF Object
  <2> QED BY <1>1, <1>3, <1>5, <2>1 DEF OS!vars, objects, asked
<1>6. CASE Object(put[w].name) # None
  BY <1>1, <1>3, <1>4, <1>6, RemoveRefines
<1> QED BY <1>5, <1>6

LEMMA RemovalFailsRefines ==
    ASSUME DInv, NEW w \in Writers, RemovalFails(w)
    PROVE  UNCHANGED OS!vars
<1>1. /\ UNCHANGED <<files, removed>> /\ At(w, "rename")
      /\ put' = [put EXCEPT ![w].pc = "plain"]
  BY DEF RemovalFails
<1>2. /\ put'[w].pc = "plain" /\ put'[w].name = put[w].name /\ put'[w].content = put[w].content
      /\ \A v \in Writers : v # w => put'[v] = put[v]
      /\ put[w].pc # "idle"
  BY <1>1 DEF DInv, TypeInv, Put, At
<1>3. asked' = asked
  BY <1>2 DEF asked, At
<1> QED BY <1>1, <1>3, SameObjects DEF OS!vars, objects, asked

(* The one step lemma: every action keeps the invariant and is a step of   *)
(* the object store, or none.                                              *)
LEMMA StepOf ==
    ASSUME SftpAlone, DInv, [Next]_vars
    PROVE  DInv' /\ [OS!Next]_OS!vars
<1>1. CASE UNCHANGED vars
  <2>1. DInv'
    BY <1>1 DEF vars, counters, DInv, TypeInv, Whole, OwnTemp, Own, Apart, Separate,
                HasTemp, At, Is, Object
  <2>2. UNCHANGED OS!vars
    BY <1>1 DEF vars, OS!vars, Object, At
  <2> QED BY <2>1, <2>2
<1>2. ASSUME NEW w \in Writers, BeginPut(w) \/ BeginCopy(w)
      PROVE  DInv' /\ OS!Ask(w)
  <2>1. PICK n \in Names, m \in Contents : Begin(w, n, m)
    BY <1>2, CopyIsWhole DEF BeginPut
  <2> QED BY <2>1, BeginKeeps, BeginRefines
<1>3. ASSUME NEW w \in Writers, CreateTemp(w) \/ Create(w)
      PROVE  DInv' /\ UNCHANGED OS!vars
  BY <1>3, CreateIsCreated, CreateRefines
<1>4. ASSUME NEW w \in Writers, Write(w) \/ RemovalFails(w)
      PROVE  DInv' /\ UNCHANGED OS!vars
  BY <1>4, WriteKeeps, WriteRefines, RemovalFailsKeeps, RemovalFailsRefines
<1>5. ASSUME NEW w \in Writers, WriteFails(w) \/ PlainRenameFails(w)
      PROVE  DInv' /\ OS!GiveUp(w)
  <2>1. /\ HasTemp(w) /\ ~At(w, "idle") /\ UNCHANGED <<server, removed>>
        /\ files' = [files EXCEPT ![put[w].name][put[w].slot] = None]
        /\ put' = Unlinked(Returns(w), put[w].name, put[w].slot)
    BY <1>5 DEF WriteFails, PlainRenameFails, HasTemp, At
  <2>2. DInv' /\ put' = Returns(w) /\ \A n \in Names : files'[n][0] = files[n][0]
    BY <2>1, CleanedKeeps
  <2> QED BY <2>1, <2>2, GivesUpRefines
<1>6. ASSUME NEW w \in Writers, Rename(w) \/ PlainRename(w)
      PROVE  DInv' /\ OS!TakeEffect(w)
  <2>1. /\ At(w, "rename") \/ At(w, "plain")
        /\ InPlace(w) /\ removed' = removed /\ ~At(w, "idle")
    BY <1>6 DEF Rename, PlainRename, InPlace, At
  <2> QED BY <2>1, InPlaceKeeps, EffectRefines
<1>7. ASSUME NEW w \in Writers, RenameRefused(w)
      PROVE  DInv' /\ (UNCHANGED OS!vars \/ \E n \in Names : OS!Remove(n))
  BY <1>7, RefusedKeeps, RefusedRefines
<1>8. ASSUME NEW w \in Writers, Store(w)
      PROVE  DInv' /\ OS!TakeEffect(w)
  <2>1. ~At(w, "idle") /\ removed' = removed
    BY <1>8 DEF Store, At
  <2> QED BY <1>8, <2>1, StoreKeeps, EffectRefines
<1>9. ASSUME NEW w \in Writers, Crash(w) \/ RenameFails(w) \/ Refused(w)
      PROVE  DInv' /\ OS!GiveUp(w)
  <2>1. ~At(w, "idle") /\ put' = Returns(w) /\ UNCHANGED <<server, files, removed>>
    BY <1>9 DEF Crash, RenameFails, Refused, At
  <2> QED BY <2>1, QuitKeeps, GivesUpRefines
<1>10. ASSUME NEW n \in Names, Delete(n)
       PROVE  DInv' /\ OS!Remove(n)
  <2>1. removed' = ~removed /\ asked' = asked
    BY <1>10, DeleteKeeps DEF Delete, asked, At
  <2> QED BY <1>10, <2>1, DeleteKeeps, RemoveRefines
<1> QED
  <2>1. CASE \E n \in Names : Delete(n)
    BY <2>1, <1>10 DEF OS!Next
  <2>2. CASE \E w \in Writers : BeginPut(w) \/ BeginCopy(w)
    BY <2>2, <1>2 DEF OS!Next
  <2>3. CASE \E w \in Writers : CreateTemp(w) \/ Create(w) \/ Write(w) \/ RemovalFails(w)
                               \/ RenameRefused(w)
    BY <2>3, <1>3, <1>4, <1>7 DEF OS!Next
  <2>4. CASE \E w \in Writers : WriteFails(w) \/ PlainRenameFails(w) \/ Crash(w)
                               \/ RenameFails(w) \/ Refused(w)
    BY <2>4, <1>5, <1>9 DEF OS!Next
  <2>5. CASE \E w \in Writers : Rename(w) \/ PlainRename(w) \/ Store(w)
    BY <2>5, <1>6, <1>8 DEF OS!Next
  <2> QED BY <1>1, <2>1, <2>2, <2>3, <2>4, <2>5 DEF Next

-----------------------------------------------------------------------------
(* Every put holds its own temporary file with its own content in it until *)
(* it ends (localdir.go:151-175, sftpws.go:222-252).                       *)
THEOREM TempsAreOwn ==
    ASSUME SftpAlone
    PROVE  Spec => []DInv
<1>1. DInv /\ [Next]_vars => DInv'
  BY StepOf
<1> QED BY InitDInv, <1>1, PTL DEF Spec

(* "readers never see a torn object" (sftpws.go:222) and Put "atomically"  *)
(* (localdir.go:151): the three drivers implement the abstract store.      *)
THEOREM DriversImplementStore ==
    ASSUME SftpAlone
    PROVE  Spec => ObjectStoreSpec
<1>1. DInv /\ [Next]_vars => [OS!Next]_OS!vars
  BY StepOf
<1> QED BY InitRefines, TempsAreOwn, <1>1, PTL DEF Spec, ObjectStoreSpec, OS!Spec

-----------------------------------------------------------------------------
(* A temporary file is that of a put under way or one that was left, never *)
(* both; and those left are whole unless a writer died.                    *)
Temp(w) == <<put[w].name, put[w].slot>>

Accounted ==
    /\ crashes \in Nat /\ left \subseteq Names \X Slots
    /\ \A n \in Names, t \in Slots \ {0} : files[n][t] # None =>
           <<n, t>> \in left \/ \E w \in Writers : HasTemp(w) /\ Temp(w) = <<n, t>>
    /\ \A w \in Writers : HasTemp(w) => Temp(w) \notin left
    /\ crashes = 0 => \A n \in Names, t \in Slots : <<n, t>> \in left => files[n][t] # Torn

(* A step of w keeps the account: what is new is w's, and what w had is    *)
(* still w's, left or gone.                                                *)
LEMMA AccountKept ==
    ASSUME DInv, Accounted, NEW w \in Writers, crashes' \in Nat,
           left' \subseteq Names \X Slots,
           \A v \in Writers : v # w => put'[v] = put[v],
           \A n \in Names, t \in Slots \ {0} : files'[n][t] # None =>
               files[n][t] # None \/ (HasTemp(w)' /\ Temp(w)' = <<n, t>>),
           HasTemp(w) =>
               \/ HasTemp(w)' /\ Temp(w)' = Temp(w)
               \/ files'[put[w].name][put[w].slot] = None
               \/ Temp(w) \in left',
           \A x \in left : x \in left' \/ (HasTemp(w)' /\ Temp(w)' = x),
           \A x \in left' : x \in left \/ (HasTemp(w) /\ Temp(w) = x),
           HasTemp(w)' => Temp(w)' \notin left',
           crashes' = 0 => \A n \in Names, t \in Slots : <<n, t>> \in left' => files'[n][t] # Torn
    PROVE  Accounted'
<1>1. ASSUME NEW n \in Names, NEW t \in Slots \ {0}, files'[n][t] # None
      PROVE  <<n, t>> \in left' \/ \E v \in Writers : HasTemp(v)' /\ Temp(v)' = <<n, t>>
  <2>1. CASE files[n][t] # None /\ <<n, t>> \in left
    BY <2>1
  <2>2. CASE files[n][t] # None /\ <<n, t>> \notin left
    <3>1. PICK v \in Writers : HasTemp(v) /\ Temp(v) = <<n, t>>
      BY <2>2 DEF Accounted
    <3>2. CASE v = w
      BY <1>1, <3>1, <3>2 DEF Temp
    <3>3. CASE v # w
      BY <3>1, <3>3 DEF HasTemp, Temp
    <3> QED BY <3>2, <3>3
  <2>3. CASE files[n][t] = None
    BY <1>1, <2>3
  <2> QED BY <2>1, <2>2, <2>3
<1>2. ASSUME NEW v \in Writers, HasTemp(v)'
      PROVE  Temp(v)' \notin left'
  <2>1. CASE v = w
    BY <1>2, <2>1
  <2>2. CASE v # w
    <3>1. HasTemp(v) /\ Temp(v)' = Temp(v)
      BY <1>2, <2>2 DEF HasTemp, Temp
    <3>2. Temp(v) \notin left
      BY <3>1 DEF Accounted
    <3>3. HasTemp(w) => Temp(w) # Temp(v)
      BY <2>2, <3>1, Places DEF Temp
    <3> QED BY <3>1, <3>2, <3>3
  <2> QED BY <2>1, <2>2
<1> QED BY <1>1, <1>2 DEF Accounted

(* A step that leaves nothing: what was left is as it was. *)
LEMMA NothingLeft ==
    ASSUME DInv, Accounted, NEW w \in Writers, UNCHANGED <<left, crashes>>,
           \A v \in Writers : v # w => put'[v] = put[v],
           \A n \in Names, t \in Slots \ {0} : files'[n][t] # None =>
               files[n][t] # None \/ (HasTemp(w)' /\ Temp(w)' = <<n, t>>),
           HasTemp(w) =>
               \/ HasTemp(w)' /\ Temp(w)' = Temp(w)
               \/ files'[put[w].name][put[w].slot] = None,
           HasTemp(w)' => HasTemp(w) /\ Temp(w)' = Temp(w),
           \A n \in Names, t \in Slots :
               files'[n][t] # Torn \/ files'[n][t] = files[n][t]
    PROVE  Accounted'
<1>1. HasTemp(w)' => Temp(w)' \notin left'
  BY DEF Accounted
<1>2. crashes' = 0 => \A n \in Names, t \in Slots : <<n, t>> \in left' => files'[n][t] # Torn
  BY DEF Accounted
<1>3. crashes' \in Nat /\ left' \subseteq Names \X Slots
  BY DEF Accounted
<1> QED BY <1>1, <1>2, <1>3, AccountKept

LEMMA EndAccounted ==
    ASSUME DInv, Accounted, UNCHANGED <<left, crashes>>, NEW w \in Writers, put' = Returns(w),
           HasTemp(w) => files'[put[w].name][put[w].slot] = None,
           \A n \in Names, t \in Slots \ {0} : files'[n][t] # None => files[n][t] # None,
           \A n \in Names, t \in Slots :
               files'[n][t] # Torn \/ files'[n][t] = files[n][t]
    PROVE  Accounted'
<1>1. \A v \in Writers : v # w => put'[v] = put[v]
  BY Returned DEF DInv
<1>2. ~HasTemp(w)'
  BY Returned, IdleIsPut DEF DInv, HasTemp
<1> QED BY <1>1, <1>2, NothingLeft

(* A writer that leaves its temporary file: whole, or the writer died. *)
LEMMA LeavesAccounted ==
    ASSUME DInv, Accounted, NEW w \in Writers, HasTemp(w), Leaves(w), put' = Returns(w),
           UNCHANGED files, crashes' \in Nat,
           crashes' = 0 => crashes = 0 /\ files[put[w].name][put[w].slot] # Torn
    PROVE  Accounted'
<1>1. /\ left' = left \union {Temp(w)} /\ Temp(w) \in Names \X Slots
      /\ put[w].name \in Names /\ put[w].slot \in Slots
  BY Places DEF Leaves, Temp
<1>2. ~HasTemp(w)' /\ \A v \in Writers : v # w => put'[v] = put[v]
  BY Returned, IdleIsPut DEF DInv, HasTemp
<1>3. crashes' = 0 => \A n \in Names, t \in Slots : <<n, t>> \in left' => files'[n][t] # Torn
  <2> SUFFICES ASSUME crashes' = 0, NEW n \in Names, NEW t \in Slots, <<n, t>> \in left'
               PROVE  files[n][t] # Torn
    OBVIOUS
  <2>1. CASE <<n, t>> \in left
    BY <2>1 DEF Accounted
  <2>2. CASE <<n, t>> = Temp(w)
    BY <2>2 DEF Temp
  <2> QED BY <1>1, <2>1, <2>2
<1>4. /\ left' \subseteq Names \X Slots /\ Temp(w) \in left'
      /\ \A x \in left : x \in left' \/ (HasTemp(w)' /\ Temp(w)' = x)
      /\ \A x \in left' : x \in left \/ (HasTemp(w) /\ Temp(w) = x)
  BY <1>1 DEF Accounted
<1>5. \A n \in Names, t \in Slots \ {0} : files'[n][t] # None =>
          files[n][t] # None \/ (HasTemp(w)' /\ Temp(w)' = <<n, t>>)
  OBVIOUS
<1>6. /\ HasTemp(w)' => Temp(w)' \notin left'
      /\ HasTemp(w) => \/ HasTemp(w)' /\ Temp(w)' = Temp(w)
                       \/ files'[put[w].name][put[w].slot] = None
                       \/ Temp(w) \in left'
  BY <1>2, <1>4
<1> QED BY <1>2, <1>3, <1>4, <1>5, <1>6, AccountKept

LEMMA AccountStep ==
    ASSUME SftpAlone, DInv, Accounted, [Next]_vars
    PROVE  Accounted'
<1>1. CASE UNCHANGED vars
  BY <1>1 DEF vars, counters, Accounted, HasTemp, Temp
<1>2. ASSUME NEW w \in Writers, BeginPut(w) \/ BeginCopy(w)
      PROVE  Accounted'
  <2>1. PICK n \in Names, m \in Contents : Begin(w, n, m)
    BY <1>2, CopyIsWhole DEF BeginPut
  <2>2. At(w, "idle") /\ UNCHANGED <<files, left, crashes>>
        /\ \A v \in Writers : v # w => put'[v] = put[v]
    BY <2>1 DEF Begin, counters, DInv, TypeInv
  <2>3. ~HasTemp(w)
    BY <2>2 DEF HasTemp, At
  <2>4. put'[w].pc \in {"store", "create"}
    BY <2>1, IdleIsPut DEF Begin, DInv, TypeInv, Put
  <2>5. ~HasTemp(w)'
    BY <2>4 DEF HasTemp
  <2> QED BY <2>2, <2>3, <2>5, NothingLeft
<1>3. ASSUME NEW w \in Writers, CreateTemp(w) \/ Create(w)
      PROVE  Accounted'
  <2>1. PICK t \in Slots \ {0} : At(w, "create") /\ Created(w, t)
    BY <1>3, CreateIsCreated
  <2>2. /\ files' = [files EXCEPT ![put[w].name][t] = Torn] /\ UNCHANGED crashes
        /\ put' = [put EXCEPT ![w].pc = "write", ![w].slot = t, ![w].fd = t]
        /\ left' = left \ {<<put[w].name, t>>} /\ ~HasTemp(w)
    BY <2>1 DEF Created, HasTemp, At
  <2>3. /\ put'[w].pc = "write" /\ put'[w].slot = t /\ put'[w].name = put[w].name
        /\ \A v \in Writers : v # w => put'[v] = put[v]
    BY <2>2 DEF DInv, TypeInv, Put
  <2>4. HasTemp(w)' /\ Temp(w)' = <<put[w].name, t>> /\ Temp(w)' \notin left'
    BY <2>2, <2>3 DEF HasTemp, Temp
  <2>5. \A n \in Names, s \in Slots : files'[n][s] = files[n][s] \/ <<n, s>> = <<put[w].name, t>>
    BY <2>2, Places DEF DInv, TypeInv
  <2>6. crashes' = 0 => \A n \in Names, s \in Slots : <<n, s>> \in left' => files'[n][s] # Torn
    BY <2>2, <2>5 DEF Accounted
  <2>7. \A n \in Names, s \in Slots \ {0} : files'[n][s] # None =>
            files[n][s] # None \/ (HasTemp(w)' /\ Temp(w)' = <<n, s>>)
    BY <2>4, <2>5
  <2>8. /\ crashes' \in Nat /\ left' \subseteq Names \X Slots
        /\ \A x \in left : x \in left' \/ (HasTemp(w)' /\ Temp(w)' = x)
        /\ \A x \in left' : x \in left
    BY <2>2, <2>4 DEF Accounted
  <2> QED BY <2>2, <2>3, <2>4, <2>6, <2>7, <2>8, AccountKept
<1>4. ASSUME NEW w \in Writers, Write(w)
      PROVE  Accounted'
  <2>1. /\ At(w, "write") /\ UNCHANGED <<left, crashes>> /\ HasTemp(w)
        /\ put' = [put EXCEPT ![w].pc = "rename", ![w].fd = Gone]
        /\ put[w].fd = put[w].slot /\ put[w].fd # Gone
        /\ put[w].content \in Contents
        /\ files[put[w].name][put[w].slot] = Torn
    BY <1>4, Places DEF Write, counters, HasTemp, At, DInv, OwnTemp, Own, Whole
  <2>2. /\ put'[w].pc = "rename" /\ put'[w].slot = put[w].slot /\ put'[w].name = put[w].name
        /\ \A v \in Writers : v # w => put'[v] = put[v]
    BY <2>1 DEF DInv, TypeInv, Put
  <2>3. HasTemp(w)' /\ Temp(w)' = Temp(w)
    BY <2>2 DEF HasTemp, Temp
  <2>4. files' = [files EXCEPT ![put[w].name][put[w].slot] = put[w].content]
    BY <1>4, <2>1 DEF Write
  <2>5. \A n \in Names, s \in Slots :
            files'[n][s] = files[n][s] \/ (files'[n][s] # Torn /\ Temp(w) = <<n, s>>)
    BY <2>1, <2>4, Places, DriverAssumption DEF DInv, TypeInv, Temp
  <2>6. \A n \in Names, s \in Slots \ {0} : files'[n][s] # None =>
            files[n][s] # None \/ (HasTemp(w)' /\ Temp(w)' = <<n, s>>)
    BY <2>3, <2>5
  <2> QED BY <2>1, <2>2, <2>3, <2>5, <2>6, NothingLeft
<1>5. ASSUME NEW w \in Writers, RenameRefused(w) \/ RemovalFails(w)
      PROVE  Accounted'
  <2>1. /\ put' = [put EXCEPT ![w].pc = "plain"] /\ At(w, "rename") /\ UNCHANGED <<left, crashes>>
        /\ files' = files \/ files' = [files EXCEPT ![put[w].name][0] = None]
    BY <1>5, RefusedKeeps DEF RenameRefused, RemovalFails, Fault, counters
  <2>2. /\ put'[w].pc = "plain" /\ put'[w].slot = put[w].slot /\ put'[w].name = put[w].name
        /\ \A v \in Writers : v # w => put'[v] = put[v]
    BY <2>1 DEF DInv, TypeInv, Put
  <2>3. HasTemp(w)' /\ HasTemp(w) /\ Temp(w)' = Temp(w)
    BY <2>1, <2>2 DEF HasTemp, Temp, At
  <2>4. \A n \in Names, s \in Slots \ {0} : files'[n][s] = files[n][s]
    BY <2>1 DEF DInv, TypeInv
  <2>5. \A n \in Names, s \in Slots : files'[n][s] # Torn \/ files'[n][s] = files[n][s]
    BY <2>1, DriverAssumption DEF DInv, TypeInv
  <2> QED BY <2>1, <2>2, <2>3, <2>4, <2>5, NothingLeft
<1>6. ASSUME NEW w \in Writers, WriteFails(w) \/ PlainRenameFails(w)
      PROVE  Accounted'
  <2>1. /\ HasTemp(w) /\ UNCHANGED <<server, removed, left, crashes>>
        /\ files' = [files EXCEPT ![put[w].name][put[w].slot] = None]
        /\ put' = Unlinked(Returns(w), put[w].name, put[w].slot)
    BY <1>6 DEF WriteFails, PlainRenameFails, HasTemp, At, Fault, counters
  <2>2. put' = Returns(w)
    BY <2>1, CleanedKeeps
  <2>3. /\ files'[put[w].name][put[w].slot] = None
        /\ \A n \in Names, s \in Slots : files'[n][s] = None \/ files'[n][s] = files[n][s]
    BY <2>1, Places DEF DInv, TypeInv
  <2> QED BY <2>1, <2>2, <2>3, EndAccounted, DriverAssumption
<1>7. ASSUME NEW w \in Writers, Rename(w) \/ PlainRename(w)
      PROVE  Accounted'
  <2>1. /\ At(w, "rename") \/ At(w, "plain")
        /\ InPlace(w) /\ HasTemp(w) /\ UNCHANGED <<left, crashes>>
    BY <1>7 DEF Rename, PlainRename, InPlace, At, HasTemp, counters
  <2>2. put' = Returns(w)
    BY <2>1, InPlaceKeeps
  <2>3. /\ files' = [files EXCEPT ![put[w].name][0] = files[put[w].name][put[w].slot],
                                  ![put[w].name][put[w].slot] = None]
        /\ files[put[w].name][put[w].slot] \in Contents
    BY <2>1 DEF InPlace, DInv, OwnTemp, Own, Whole, At
  <2>4. /\ files'[put[w].name][put[w].slot] = None
        /\ \A n \in Names, s \in Slots \ {0} : files'[n][s] # None => files[n][s] # None
    BY <2>1, <2>3, Places DEF DInv, TypeInv
  <2>5. \A n \in Names, s \in Slots : files'[n][s] # Torn \/ files'[n][s] = files[n][s]
    BY <2>3, Places, DriverAssumption DEF DInv, TypeInv
  <2> QED BY <2>1, <2>2, <2>4, <2>5, EndAccounted
<1>8. ASSUME NEW w \in Writers, Store(w)
      PROVE  Accounted'
  <2>1. /\ files' = [files EXCEPT ![put[w].name][0] = put[w].content]
        /\ put' = Returns(w) /\ UNCHANGED <<left, crashes>> /\ ~HasTemp(w)
        /\ put[w].content \in Contents
    BY <1>8 DEF Store, At, HasTemp, counters, DInv, Whole
  <2>2. \A n \in Names, s \in Slots \ {0} : files'[n][s] # None => files[n][s] # None
    BY <2>1 DEF DInv, TypeInv
  <2>3. \A n \in Names, s \in Slots : files'[n][s] # Torn \/ files'[n][s] = files[n][s]
    BY <2>1, DriverAssumption DEF DInv, TypeInv
  <2> QED BY <2>1, <2>2, <2>3, EndAccounted
<1>9. ASSUME NEW w \in Writers, Crash(w)
      PROVE  Accounted'
  <2>1. /\ crashes' = crashes + 1 /\ crashes \in Nat /\ UNCHANGED files /\ put' = Returns(w)
    BY <1>9 DEF Crash, Accounted
  <2>2. crashes' \in Nat /\ crashes' # 0
    BY <2>1
  <2>3. CASE HasTemp(w)
    BY <1>9, <2>1, <2>2, <2>3, LeavesAccounted DEF Crash
  <2>4. CASE ~HasTemp(w)
    <3>1. left' = left /\ ~HasTemp(w)' /\ \A v \in Writers : v # w => put'[v] = put[v]
      BY <1>9, <2>1, <2>4, Returned, IdleIsPut DEF Crash, DInv, HasTemp
    <3>2. left' \subseteq Names \X Slots
      BY <3>1 DEF Accounted
    <3> QED BY <2>1, <2>2, <2>4, <3>1, <3>2, AccountKept
  <2> QED BY <2>3, <2>4
<1>10. ASSUME NEW n \in Names, Delete(n)
       PROVE  Accounted'
  <2>1. put' = put /\ files' = [files EXCEPT ![n][0] = None] /\ UNCHANGED <<left, crashes>>
    BY <1>10, DeleteKeeps DEF Delete, counters
  <2>2. \A x \in Names, s \in Slots \ {0} : files'[x][s] = files[x][s]
    BY <2>1 DEF DInv, TypeInv
  <2>3. \A x \in Names, s \in Slots : files'[x][s] # Torn \/ files'[x][s] = files[x][s]
    BY <2>1, DriverAssumption DEF DInv, TypeInv
  <2> QED BY <2>1, <2>2, <2>3 DEF Accounted, HasTemp, Temp
<1>11. ASSUME NEW w \in Writers, RenameFails(w)
       PROVE  Accounted'
  <2>1. /\ At(w, "rename") /\ HasTemp(w) /\ Leaves(w) /\ put' = Returns(w)
        /\ UNCHANGED <<files, crashes>>
    BY <1>11 DEF RenameFails, Fault, HasTemp, At
  <2>2. crashes' \in Nat
    BY <2>1 DEF Accounted
  <2>3. files[put[w].name][put[w].slot] # Torn
    BY <2>1, DriverAssumption DEF DInv, OwnTemp, Own, Whole, At
  <2> QED BY <2>1, <2>2, <2>3, LeavesAccounted
<1>12. ASSUME NEW w \in Writers, Refused(w)
       PROVE  Accounted'
  <2>1. /\ ~HasTemp(w) /\ put' = Returns(w) /\ UNCHANGED <<files, left, crashes>>
    BY <1>12 DEF Refused, Fault, HasTemp, At
  <2> QED BY <2>1, EndAccounted
<1> QED
  BY <1>1, <1>2, <1>3, <1>4, <1>5, <1>6, <1>7, <1>8, <1>9, <1>10, <1>11, <1>12 DEF Next

(* The account is kept in every behaviour. *)
LEMMA AlwaysAccounted ==
    ASSUME SftpAlone
    PROVE  Spec => []Accounted
<1>1. Init => Accounted
  BY IdleIsPut, DriverAssumption DEF Init, Accounted, Slots, HasTemp
<1>2. DInv /\ Accounted /\ [Next]_vars => Accounted'
  BY AccountStep
<1> QED BY <1>1, <1>2, TempsAreOwn, PTL DEF Spec

(* TypeOK: the ranges of all variables, and that a put to a directory      *)
(* finds its temporary file where it left it.                              *)
THEOREM DriversTypeCorrect ==
    ASSUME SftpAlone
    PROVE  Spec => []TypeOK
<1>1. DInv /\ Accounted => TypeOK
  <2> SUFFICES ASSUME DInv, Accounted PROVE TypeOK OBVIOUS
  <2>1. ASSUME NEW w \in Writers, At(w, "write") \/ At(w, "rename")
        PROVE  /\ put[w].slot # 0 /\ files[put[w].name][put[w].slot] # None
               /\ At(w, "write") => put[w].fd = put[w].slot
    BY <2>1, DriverAssumption DEF DInv, OwnTemp, Own, HasTemp, Whole, At
  <2> QED BY <2>1 DEF DInv, TypeInv, TypeOK, Accounted
<1> QED BY <1>1, TempsAreOwn, AlwaysAccounted, PTL


(* With no put under way, what is listed is an object's or an entry's own  *)
(* file, or one that was left.                                             *)
LEMMA IdleLists ==
    ASSUME DInv, Accounted, AllIdle, NEW n \in Names, NEW f \in Listed(n)
    PROVE  /\ f[1] = n /\ (f[2] # 0 => f \in left)
           /\ crashes = 0 => files[f[1]][f[2]] \in Contents
<1>1. PICK s \in Slots : f = <<n, s>> /\ files[n][s] # None
  BY DEF Listed
<1>2. s # 0 => <<n, s>> \in left
  BY <1>1 DEF Accounted, AllIdle, HasTemp, At
<1>3. files[n][s] \in Contents \union {None, Torn}
  BY <1>1 DEF DInv, TypeInv
<1>4. crashes = 0 => files[n][s] # Torn
  <2>1. CASE s = 0
    BY <2>1 DEF DInv, Whole, Object
  <2>2. CASE s # 0
    BY <1>2, <2>2 DEF Accounted
  <2> QED BY <2>1, <2>2
<1> QED BY <1>1, <1>2, <1>3, <1>4

(* localdir.go:151-175, sftpws.go:222-252: only a writer that died or a    *)
(* rename that failed in a directory leaves a temporary file that a        *)
(* listing shows, and as long as nobody died all that is listed is whole.  *)
THEOREM ListingsAlwaysClean ==
    ASSUME SftpAlone
    PROVE  Spec => []ListingsClean
<1>1. DInv /\ Accounted => ListingsClean
  <2> SUFFICES ASSUME DInv, Accounted, AllIdle
               PROVE  /\ \A f \in List \union UNION {Journal(k) : k \in KeysUsed} :
                             f[2] # 0 => f \in left
                      /\ crashes = 0 => /\ JournalReadable
                                        /\ \A f \in List : files[f[1]][f[2]] \in Contents
    BY DEF ListingsClean
  <2>1. ASSUME NEW k \in KeysUsed, NEW f \in Journal(k)
        PROVE  /\ f[2] # 0 => f \in left
               /\ crashes = 0 => files[f[1]][f[2]] \in Contents
    <3>1. PICK n \in Names : f \in Listed(n)
      BY DEF Journal
    <3> QED BY <3>1, IdleLists
  <2>2. ASSUME NEW f \in List
        PROVE  /\ f[2] # 0 => f \in left
               /\ crashes = 0 => files[f[1]][f[2]] \in Contents
    <3>1. PICK n \in Names : f \in Listed(n)
      BY DEF List
    <3> QED BY <3>1, IdleLists
  <2>3. crashes = 0 => JournalReadable
    BY <2>1 DEF JournalReadable
  <2> QED BY <2>1, <2>2, <2>3
<1> QED BY <1>1, TempsAreOwn, AlwaysAccounted, PTL
=============================================================================
