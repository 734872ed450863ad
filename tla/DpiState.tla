------------------------------ MODULE DpiState ------------------------------
(***************************************************************************)
(* The one-byte dpi_state of struct connection_state and how the TC egress *)
(* program classifies the first packets of a flow.  The low nibble holds   *)
(* the class, the high nibble the number of packets already offered to     *)
(* user space.  The XDP program switches on the WHOLE byte.                *)
(***************************************************************************)
EXTENDS Naturals

CONSTANT
    \* @trace_connect.c:50, 5 in the build; the nibble leaves room for 15
    MAX_DPI_ATTEMPTS

ASSUME MaxAttemptsAssumption == MAX_DPI_ATTEMPTS \in 1..15

DPI_UNKNOWN     == 0
DPI_IGNORE      == 1
DPI_BLOCKLIST   == 2
DPI_TLS_PENDING == 3
DPI_TLS_DONE    == 4

Byte == 0..255

DPI_ST(x)           == x % 16
DPI_ATTEMPTS(x)     == x \div 16
DPI_MAKE(st, tries) == (tries % 16) * 16 + st

(***************************************************************************)
(* Egress flows by destination port and protocol: "system" is a            *)
(* destination port 53, 123, 67 or 68, "tls" is TCP to 443 or 80, "other"  *)
(* is the rest (UDP to 443 or 80 included).                                *)
(***************************************************************************)
Services == {"system", "tls", "other"}

(***************************************************************************)
(* Egress packets by what the program can read behind the L4 header:       *)
(* nothing, some bytes, or the six bytes of a TLS ClientHello.             *)
(***************************************************************************)
Payloads == {"empty", "data", "hello"}

IsClientHello(service, payload) == service = "tls" /\ payload = "hello"

\* mutant: the ClientHello test comes before the port test
ClassifyAnyPort(service, payload, dstBlocked) ==
    IF dstBlocked THEN DPI_MAKE(DPI_BLOCKLIST, 0)
    ELSE IF payload = "hello" THEN DPI_MAKE(DPI_TLS_PENDING, 1)
    ELSE IF service # "tls" THEN DPI_MAKE(DPI_IGNORE, 0)
    ELSE DPI_MAKE(DPI_UNKNOWN, 0)

(***************************************************************************)
(* The byte stored for a flow that has no entry, or one still UNKNOWN.     *)
(***************************************************************************)
Classify(service, payload, dstBlocked) ==
    IF dstBlocked THEN DPI_MAKE(DPI_BLOCKLIST, 0)
    ELSE IF service # "tls" THEN DPI_MAKE(DPI_IGNORE, 0)
    ELSE IF payload = "hello" THEN DPI_MAKE(DPI_TLS_PENDING, 1)
    ELSE DPI_MAKE(DPI_UNKNOWN, 0)

(***************************************************************************)
(* permanent_blocklist_map as the TC program sees it.  load_xdp_skeleton   *)
(* redirects three maps of the TC object to the XDP object's and this one  *)
(* is not among them, so the TC program owns a map nobody writes.          *)
(***************************************************************************)
TcBlocklist == {}

(***************************************************************************)
(* check_conntrack_and_blacklist switches on the byte: 1 passes on the     *)
(* fast path, 2 is dropped, every other value passes as "pending" and is   *)
(* reported to user space.                                                 *)
(***************************************************************************)
ConnVerdict(b) == CASE b = 1 -> "DPI_PASSED"
                    [] b = 2 -> "DROP"
                    [] OTHER -> "DPI_PENDING"
=============================================================================
