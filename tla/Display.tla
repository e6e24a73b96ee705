------------------------------ MODULE Display -------------------------------
(***************************************************************************)
(* Ownership of the display (the display system calls of                   *)
(* src/kernel/syscall.qll): a process opens it, which allocates a          *)
(* framebuffer and maps it into the process, draws into it, flips it and   *)
(* closes it.  The peripheral shows the words its pointer register names.  *)
(***************************************************************************)
EXTENDS Memory

VARIABLES
    display_owner_pid,  \* 0 when nobody owns it
    display_fb_phys,    \* the framebuffer of the owner
    screen              \* the peripheral: framebuffer pointer and words shown

displayVars == <<display_owner_pid, display_fb_phys, screen>>

FRAMEBUFFER_VIRTUAL_BASE == 262144

DisplayTypeOK ==
    /\ display_owner_pid \in Pids \cup {0}
    /\ display_fb_phys \in Nat
    /\ screen \in [pointer : Nat, size : Nat]

DisplayInit ==
    /\ display_owner_pid = 0
    /\ display_fb_phys = 0
    /\ screen = [pointer |-> 0, size |-> 0]

Framebuffer(size) ==
    [virtual_address |-> FRAMEBUFFER_VIRTUAL_BASE, physical_address |-> NewMemory,
     size |-> size]

-----------------------------------------------------------------------------
(* _display_open by p for a framebuffer of `size' words.  A call can fail  *)
(* at five places: those after the allocation keep the memory, and the     *)
(* last of them keeps the page too.  result_ptr is the user's pointer.     *)
OpenRefused(result) ==
    /\ result = -1
    /\ UNCHANGED <<memVars, displayVars>>

OpenWithoutMemory(size, result) ==
    /\ display_owner_pid = 0 /\ ~Fits(size)
    /\ screen' = [screen EXCEPT !.size = size]
    /\ result = -1
    /\ UNCHANGED <<memVars, display_owner_pid, display_fb_phys>>

(* A faulty variant of PointAt: the peripheral's pointer is set once only. *)
PointAt_KeepsPointer(size) ==
    /\ display_owner_pid = 0 /\ Fits(size)
    /\ Take(size)
    /\ display_fb_phys' = NewMemory
    /\ screen' = [pointer |-> IF screen.pointer = 0 THEN NewMemory ELSE screen.pointer,
                  size |-> size]

PointAt(size) ==
    /\ display_owner_pid = 0 /\ Fits(size)
    /\ Take(size)
    /\ display_fb_phys' = NewMemory
    /\ screen' = [pointer |-> NewMemory, size |-> size]

OpenWithoutPage(p, size, result) ==
    /\ TableFull(p)
    /\ PointAt(size)
    /\ result = -1
    /\ UNCHANGED <<table, display_owner_pid>>

OpenMapped(p, size, result_ptr_valid, result) ==
    /\ ~TableFull(p)
    /\ PointAt(size)
    /\ AddPage(p, Framebuffer(size))
    /\ display_owner_pid' = IF result_ptr_valid THEN p ELSE display_owner_pid
    /\ result = IF result_ptr_valid THEN 0 ELSE -1

DisplayOpen(p, size, result_ptr_valid, result) ==
    \/ OpenRefused(result)
    \/ OpenWithoutMemory(size, result)
    \/ OpenWithoutPage(p, size, result)
    \/ OpenMapped(p, size, result_ptr_valid, result)

(* _display_close; its memory and its page stay as they are.               *)
DisplayClose(p, result) ==
    \/ /\ display_owner_pid = p
       /\ display_owner_pid' = 0 /\ display_fb_phys' = 0
       /\ result = 0
       /\ UNCHANGED <<memVars, screen>>
    \/ /\ display_owner_pid # p
       /\ result = -1
       /\ UNCHANGED <<memVars, displayVars>>

(* _display_flip shows the words the peripheral points at.                 *)
DisplayFlip(p, result) ==
    /\ result = IF display_owner_pid = p THEN 0 ELSE -1
    /\ UNCHANGED <<memVars, displayVars>>

(* A faulty variant of ReleaseDisplay: `no owner' is taken to be -1.        *)
ReleaseDisplay_MinusOne(D) ==
    /\ display_owner_pid' = IF display_owner_pid \in D THEN -1 ELSE display_owner_pid
    /\ display_fb_phys' = IF display_owner_pid \in D THEN 0 ELSE display_fb_phys

(* release_display for each process in D that is being destroyed.          *)
ReleaseDisplay(D) ==
    /\ display_owner_pid' = IF display_owner_pid \in D THEN 0 ELSE display_owner_pid
    /\ display_fb_phys' = IF display_owner_pid \in D THEN 0 ELSE display_fb_phys

-----------------------------------------------------------------------------
(* What the owner flips is memory of the owner: the words the peripheral   *)
(* shows are a page of the owner's table, so that nobody draws on, or      *)
(* looks at, another process's framebuffer.                                *)
ScreenIsOwners ==
    display_owner_pid # 0 =>
        /\ screen.pointer = display_fb_phys
        /\ \E i \in DOMAIN table[display_owner_pid] :
             /\ table[display_owner_pid][i].physical_address = screen.pointer
             /\ table[display_owner_pid][i].size = screen.size
=============================================================================
