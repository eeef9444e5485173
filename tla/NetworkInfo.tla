---------------------------- MODULE NetworkInfo ----------------------------
(* The network item of SystemStatus (core/SystemStatus.h): the framework     *)
(* reports one network at a time, each report is collated with the last into *)
(* a table of all networks that are up.  A report is a record: the network   *)
(* and its type as the framework gave them, and the table as mAllTypes and   *)
(* mAllNetworkHandles, an array without gaps that ends in unknown handles.   *)
EXTENDS Naturals, SequencesExt

CONSTANT MaxHandles     \* MAX_NETWORK_HANDLES

Entry(n, t) == [handle |-> n, type |-> t]

(* NetworkInfoDataItem(), eventConnectionStatus                              *)
Report(up, n, t) ==
    [mConnected |-> up, entry |-> Entry(n, t), mAllTypes |-> {t}, handles |-> <<Entry(n, t)>>]

TypesOf(handles) == {handles[i].type : i \in DOMAIN handles}
Known(handles, n) == \E i \in DOMAIN handles : handles[i].handle = n

(* The network is entered unless it is known or the table is full.           *)
Enter(new, cur) ==
    [new EXCEPT
        !.mAllTypes = @ \cup cur.mAllTypes,
        !.handles = IF Known(cur.handles, new.entry.handle) \/ Len(cur.handles) = MaxHandles
                    THEN cur.handles ELSE Append(cur.handles, new.entry)]

(* The last entry takes the place of the one that leaves; the type leaves    *)
(* with its last network.  Where it stays, what the report said, its own     *)
(* type alone, is left for mAllTypes.                                        *)
BugLeave(new, cur) ==
    LET others == {i \in DOMAIN cur.handles :
                      /\ cur.handles[i].type = new.entry.type
                      /\ cur.handles[i].handle # new.entry.handle}
        kept == IF Contains(cur.handles, new.entry) THEN Front(cur.handles) ELSE cur.handles
    IN [new EXCEPT
        !.mAllTypes = IF others = {} THEN cur.mAllTypes \ @ ELSE @,
        !.handles = kept]

Leave(new, cur) ==
    LET others == {i \in DOMAIN cur.handles :
                      /\ cur.handles[i].type = new.entry.type
                      /\ cur.handles[i].handle # new.entry.handle}
        left == {i \in DOMAIN cur.handles : cur.handles[i] = new.entry}
    IN [new EXCEPT
        !.mAllTypes = IF others = {} THEN cur.mAllTypes \ @ ELSE @,
        !.handles = IF left = {} THEN cur.handles
                    ELSE Front([cur.handles EXCEPT ![Max(left)] = Last(cur.handles)])]

collate(new, cur) == IF new.mConnected THEN Enter(new, cur) ELSE Leave(new, cur)

(* Neither roaming nor the network of the report is compared.                *)
equals(a, b) ==
    a.mAllTypes = b.mAllTypes /\ a.mConnected = b.mConnected /\ a.handles = b.handles
=============================================================================
