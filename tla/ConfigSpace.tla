----------------------------- MODULE ConfigSpace ----------------------------
(***************************************************************************)
(* What the PCI half of the driver promises its callers: configuration     *)
(* space is a store of bytes, and every request takes effect on exactly    *)
(* the bytes it names, at one instant between its call and its return.     *)
(* Nothing is said of ports, windows, double words or locks.               *)
(***************************************************************************)
EXTENDS PciCalls

VARIABLES
    cfg,   \* the bytes of every device
    st,    \* where each process is in its request
    req,   \* the request
    rsp    \* what it will be given back

vars == <<cfg, st, req, rsp>>

NoRsp == <<>>

\* The bytes a request returns from the store m.
Load(m, c) ==
    CASE c.op = "read"  -> [k \in 0 .. c.width - 1 |->
                               IF Rejected(c) THEN Ones ELSE m[c.dev][c.reg + k]]
      [] c.op = "mass"  -> [k \in Slots |->
                               IF Rejected(c) THEN Zero ELSE m[c.dev][c.reg + k]]
      [] c.op = "write" -> NoRsp

\* The store a request leaves.
Store(m, c) ==
    IF c.op # "write" \/ Rejected(c)
    THEN m
    ELSE [m EXCEPT ![c.dev] = [r \in Regs |->
             IF r \in c.reg .. c.reg + c.width - 1 THEN c.buf[r - c.reg] ELSE @[r]]]

Init ==
    /\ cfg \in BootCfg
    /\ st = [p \in Procs |-> "idle"]
    /\ req = [p \in Procs |-> IdleCall]
    /\ rsp = [p \in Procs |-> NoRsp]

Begin(p) ==
    /\ st[p] = "idle"
    /\ \E c \in Calls : req' = [req EXCEPT ![p] = c]
    /\ st' = [st EXCEPT ![p] = "pending"]
    /\ UNCHANGED <<cfg, rsp>>

Apply(p) ==
    /\ st[p] = "pending"
    /\ st' = [st EXCEPT ![p] = "done"]
    /\ cfg' = Store(cfg, req[p])
    /\ rsp' = [rsp EXCEPT ![p] = Load(cfg, req[p])]
    /\ UNCHANGED req

End(p) ==
    /\ st[p] = "done"
    /\ st' = [st EXCEPT ![p] = "idle"]
    /\ req' = [req EXCEPT ![p] = IdleCall]
    /\ rsp' = [rsp EXCEPT ![p] = NoRsp]
    /\ UNCHANGED cfg

Next == \E p \in Procs : Begin(p) \/ Apply(p) \/ End(p)

Spec == Init /\ [][Next]_vars

=============================================================================
