----------------------------- MODULE IoRegistry -----------------------------
(***************************************************************************)
(* The tables the VM monitor dispatches a guest's port and memory-mapped   *)
(* accesses with (vmx_pio.c, vmx_mmio.c).  Devices register their          *)
(* callbacks one by one; a table is kept sorted and searched on every      *)
(* exit.  A callback set is a value of Callbacks.                          *)
(***************************************************************************)
EXTENDS SortSearch

CONSTANTS
  Ports,                 \* the port numbers devices register
  Callbacks,             \* what they register for them
  MAX_PORTS_SUPPORTED,
  Regions,               \* the memory regions: [addr_low, addr_high]
  MAX_NR_MMIO_REGIONS,
  Addresses,             \* the guest physical addresses looked up
  None                   \* the callback of a port without one

\* A guest reaches sixteen bits of ports; their differences fit an int.
PortNumbers == {p \in Nat : p < 2 ^ 16}

\* Capacities and addresses are unsigned; no address is the last of 64 bits.
ASSUME PortsAssumption ==
  /\ Ports \subseteq PortNumbers /\ MAX_PORTS_SUPPORTED \in Nat
  /\ MAX_NR_MMIO_REGIONS \in Nat /\ Addresses \subseteq Nat /\ None \notin Callbacks

\* Regions do not overlap.  mmio_operation_compare stops the machine on two
\* that cross; one inside another would compare as equal and upset the order.
ASSUME RegionsAssumption ==
  /\ \A r \in Regions : r \in [addr_low : Nat, addr_high : Nat] /\ r.addr_low < r.addr_high
  /\ \A r, q \in Regions :
       r # q => r.addr_high <= q.addr_low \/ q.addr_high <= r.addr_low

VARIABLES
  portio_ops,   \* the first nr_ports elements of the array
  mmio_ops,     \* the first nr_mmio_ops elements of the array
  latest,       \* history: what was last registered for each port
  host          \* "running" until an ASSERT stops it

vars == <<portio_ops, mmio_ops, latest, host>>

Init ==
  /\ portio_ops = <<>>
  /\ mmio_ops = <<>>
  /\ latest = [p \in Ports |-> None]
  /\ host = "running"

-----------------------------------------------------------------------------
port_ops_compare(port1, port2) == port1.portid - port2.portid

search_portio_callback(port_id) ==
  SEARCH(portio_ops, [portid |-> port_id], port_ops_compare)

\* A port that is registered already has its callbacks replaced.  The last
\* assertion of the function looks the new element up.
register_pio_operation(pio) ==
  LET found == search_portio_callback(pio.portid)
      sorted == SORT(Append(portio_ops, pio), port_ops_compare)
  IN
  /\ host = "running"
  /\ CASE found # 0 ->
            /\ portio_ops' = [portio_ops EXCEPT ![found] = pio]
            /\ latest' = [latest EXCEPT ![pio.portid] = pio.ops]
            /\ UNCHANGED host
       [] found = 0 /\ Len(portio_ops) < MAX_PORTS_SUPPORTED ->
            /\ portio_ops' = sorted
            /\ latest' = [latest EXCEPT ![pio.portid] = pio.ops]
            /\ host' = IF SEARCH(sorted, pio, port_ops_compare) # 0
                       THEN "running" ELSE "panic"
       [] OTHER ->
            host' = "panic" /\ UNCHANGED <<portio_ops, latest>>
  /\ UNCHANGED mmio_ops

-----------------------------------------------------------------------------
\* Mutant: a region is taken to include the address it ends at.
mmio_operation_compare_closed(mmio1, mmio2) ==
  CASE mmio1.addr_high < mmio2.addr_low -> -1
    [] mmio1.addr_high >= mmio2.addr_low /\ mmio1.addr_low > mmio2.addr_high -> 1
    [] OTHER -> 0

\* The assertions and the __not_reach of the code are left out: regions are not
\* empty, two of them are apart, and the one byte of a target lies inside or
\* outside, so that OTHER is one region including the other.
mmio_operation_compare(mmio1, mmio2) ==
  CASE mmio1.addr_high <= mmio2.addr_low -> -1
    [] mmio1.addr_high > mmio2.addr_low /\ mmio1.addr_low >= mmio2.addr_high -> 1
    [] OTHER -> 0

\* The target is the region of one byte at the address.
search_mmio_callback(ops, guest_pa) ==
  SEARCH(ops, [addr_low |-> guest_pa, addr_high |-> guest_pa + 1],
         mmio_operation_compare)

register_mmio_operation(mmio) ==
  LET sorted == SORT(Append(mmio_ops, mmio), mmio_operation_compare) IN
  /\ host = "running"
  /\ IF search_mmio_callback(mmio_ops, mmio.addr_low) # 0
          \/ Len(mmio_ops) >= MAX_NR_MMIO_REGIONS
     THEN host' = "panic" /\ UNCHANGED mmio_ops
     ELSE /\ mmio_ops' = sorted
          /\ host' = IF search_mmio_callback(sorted, mmio.addr_low) # 0
                     THEN "running" ELSE "panic"
  /\ UNCHANGED <<portio_ops, latest>>

Next ==
  \/ \E p \in Ports, c \in Callbacks :
       register_pio_operation([portid |-> p, ops |-> c])
  \/ \E r \in Regions : register_mmio_operation(r)

Spec == Init /\ [][Next]_vars

-----------------------------------------------------------------------------
\* A guest's access to a port reaches the callbacks registered for it last,
\* and an access to any other port is noticed: whatever the order of the
\* registrations, the sort and the two-ended search fit together
\* (search.h 10-37, sort.h 12-27, vmx_pio.c 20-44).  The array is never outgrown.
PortsDispatched ==
  /\ Len(portio_ops) <= MAX_PORTS_SUPPORTED
  /\ \A p \in Ports :
       LET i == search_portio_callback(p) IN
       IF latest[p] = None
       THEN i = 0
       ELSE i # 0 /\ portio_ops[i] = [portid |-> p, ops |-> latest[p]]

\* The same for memory: an address is found exactly when a registered region
\* holds it, up to the last byte and not beyond, and in that region
\* (vmx_mmio.c 13-62).
RegionsDispatched ==
  \A a \in Addresses :
    LET i == search_mmio_callback(mmio_ops, a)
        holders == {k \in DOMAIN mmio_ops :
                      mmio_ops[k].addr_low <= a /\ a < mmio_ops[k].addr_high}
    IN  IF holders = {} THEN i = 0 ELSE i \in holders
=============================================================================
